---- MODULE Spec2Model ----
(***************************************************************************)
(* Model of the strategy engine of the backtester:                         *)
(*   app/strategies/ema_crossover.py  (EMAStrategy)                        *)
(*   app/strategies/rsi_strategy.py   (RSIStrategy)                        *)
(*                                                                         *)
(* A call of execute(data, parameters) is modelled statement by statement: *)
(* parameter validation, the 'close' column check, the length check, the   *)
(* indicator computation and then one action per iteration of the loop of  *)
(* _simulate_trades.  validate_parameters is also a public method and is   *)
(* modelled as a call of its own.                                          *)
(*                                                                         *)
(* Numbers.  Prices are integers.  Every float the code computes from them *)
(* (EMA, RSI, trade return) is an exact rational <<num, den>> with         *)
(* den > 0; <<0, 0>> stands for NaN.  Indices are Python's (0-based): the  *)
(* element at Python index t of a sequence s is s[t + 1].                  *)
(***************************************************************************)
EXTENDS Integers, Sequences, FiniteSets, TLC

(***************************************************************************)
(* Bounds of the model                                                     *)
(***************************************************************************)
MaxLenEMA == 5       \* longest close series handed to EMAStrategy.execute
MaxLenRSI == 9       \* longest close series handed to RSIStrategy.execute
MaxPriceEMA == 3     \* close prices of an EMA run are 1..MaxPriceEMA
MaxEMAPeriod == 3    \* largest short_period / long_period tried
MaxRSIPeriod == 2    \* largest RSI period tried
MaxLinearLen == 7    \* longest steadily rising series handed to EMAStrategy.execute
MaxLinearStart == 2  \* its first price is 1..MaxLinearStart
MaxLinearStep == 2   \* its step is 1..MaxLinearStep
MaxTrades == 4       \* longest trade list handed to MetricsCalculator.calculate
MaxRiskTrades == 4   \* longest trade list handed to RiskAnalyzer
MaxHeavyTrades == 6  \* longest list of heavy losses handed to RiskAnalyzer
MaxConsecutive == 7  \* largest max_consecutive_losses handed to _classify_risk
MaxRegimeLen == 3    \* longest close series handed to MarketRegimeAnalyzer
MaxRegimePrice == 3  \* its closes are 0..MaxRegimePrice
MaxConfigs == 2      \* most strategy configurations in a POST /compare request
MaxCandles == 3      \* most candles the data client returns to an endpoint
MaxRepeatLen == 3    \* longest series on which execute is called a second time
MaxRepeatTrades == 2 \* longest trade list analysed a second time

RSIPrices == {1, 2}                \* close prices of an RSI run
ExecThresholds == {30, 45, 60, 70} \* oversold / overbought levels of an RSI run

(***************************************************************************)
(* Python values of a parameter dict entry                                 *)
(***************************************************************************)
IntV(n) == [tag |-> "int", val |-> n]
FloatV(n) == [tag |-> "float", val |-> n]
StrV == [tag |-> "str", val |-> 0]
Missing == [tag |-> "missing", val |-> 0]
FloatNaN == [tag |-> "nan", val |-> 0]     \* float('nan')

\* isinstance(v, int)
IsInt(v) == v.tag = "int"

\* isinstance(v, (int, float))
IsNumber(v) == v.tag \in {"int", "float", "nan"}

\* v <= n, v >= n and a >= b on parameter values; with float('nan') on either
\* side Python's comparison is False
PyLe(v, n) == v.tag # "nan" /\ v.val <= n
PyGe(v, n) == v.tag # "nan" /\ v.val >= n
PyGeV(a, b) == a.tag # "nan" /\ b.tag # "nan" /\ a.val >= b.val

(***************************************************************************)
(* Exact arithmetic on <<num, den>>                                        *)
(***************************************************************************)
NaN == <<0, 0>>

\* pd.isna
isna(a) == a[2] = 0

\* -1, 0 or 1 as a < b, a = b or a > b, for two numbers that are not NaN.
\* The integer parts decide; when they are equal the fractional parts are
\* compared through their reciprocals, so no product is ever formed.
RECURSIVE Compare(_, _)
Compare(a, b) ==
    LET qa == a[1] \div a[2]
        qb == b[1] \div b[2]
        ra == a[1] % a[2]
        rb == b[1] % b[2]
    IN  IF qa # qb THEN (IF qa < qb THEN -1 ELSE 1)
        ELSE IF ra = 0 \/ rb = 0
             THEN (IF ra = rb THEN 0 ELSE IF ra = 0 THEN -1 ELSE 1)
        ELSE Compare(<<b[2], rb>>, <<a[2], ra>>)

\* Python's comparisons: every comparison with NaN is False
Lt(a, b) == ~isna(a) /\ ~isna(b) /\ Compare(a, b) < 0
Le(a, b) == ~isna(a) /\ ~isna(b) /\ Compare(a, b) <= 0
Gt(a, b) == Lt(b, a)
Ge(a, b) == Le(b, a)

Num(n) == <<n, 1>>

RECURSIVE Pow(_, _)
Pow(b, e) == IF e = 0 THEN 1 ELSE b * Pow(b, e - 1)

RECURSIVE GCD(_, _)
GCD(a, b) == IF b = 0 THEN a ELSE GCD(b, a % b)

Abs(n) == IF n < 0 THEN -n ELSE n

\* the same fraction in lowest terms (NaN stays NaN)
Reduce(a) ==
    IF a[2] = 0 THEN a
    ELSE LET g == GCD(Abs(a[1]), a[2]) IN <<a[1] \div g, a[2] \div g>>

\* Series.iloc[t]
iloc(s, t) == s[t + 1]

(***************************************************************************)
(* Series.ewm(span=span, adjust=False).mean() of an integer series x:      *)
(*   y[0] = x[0],  y[t] = alpha * x[t] + (1 - alpha) * y[t-1],             *)
(*   alpha = 2 / (span + 1).                                               *)
(* EwmNum(x, span, t) is y[t] * (span + 1)^t, an integer.                  *)
(***************************************************************************)
RECURSIVE EwmNum(_, _, _)
EwmNum(x, span, t) ==
    IF t = 0 THEN iloc(x, 0)
    ELSE 2 * iloc(x, t) * Pow(span + 1, t - 1) + (span - 1) * EwmNum(x, span, t - 1)

\* Mutant of ewm_mean: a warm-up of span - 1 bars (min_periods=span), the
\* values before it undefined.
Mut_ewm_mean(x, span) ==
    [k \in 1..Len(x) |->
        IF k < span THEN NaN ELSE <<EwmNum(x, span, k - 1), Pow(span + 1, k - 1)>>]

ewm_mean(x, span) ==
    [k \in 1..Len(x) |-> <<EwmNum(x, span, k - 1), Pow(span + 1, k - 1)>>]

\* Mutant of EMAValidate: the last test written  short > long, so that equal
\* periods pass.
MutEMAValidate(p) ==
    IF p.short_period.tag = "missing" THEN "Missing required parameter: short_period"
    ELSE IF p.long_period.tag = "missing" THEN "Missing required parameter: long_period"
    ELSE IF ~IsInt(p.short_period) \/ p.short_period.val <= 0
        THEN "short_period must be positive integer"
    ELSE IF ~IsInt(p.long_period) \/ p.long_period.val <= 0
        THEN "long_period must be positive integer"
    ELSE IF p.short_period.val > p.long_period.val
        THEN "short_period must be less than long_period"
    ELSE "ok"

(***************************************************************************)
(* EMAStrategy.validate_parameters: the message of the ValueError raised,  *)
(* or "ok" when the method returns True.                                   *)
(***************************************************************************)
EMAValidate(p) ==
    IF p.short_period.tag = "missing" THEN "Missing required parameter: short_period"
    ELSE IF p.long_period.tag = "missing" THEN "Missing required parameter: long_period"
    ELSE IF ~IsInt(p.short_period) \/ p.short_period.val <= 0
        THEN "short_period must be positive integer"
    ELSE IF ~IsInt(p.long_period) \/ p.long_period.val <= 0
        THEN "long_period must be positive integer"
    ELSE IF p.short_period.val >= p.long_period.val
        THEN "short_period must be less than long_period"
    ELSE "ok"

(***************************************************************************)
(* RSIStrategy.validate_parameters, likewise.                              *)
(***************************************************************************)
RSIValidate(p) ==
    IF p.period.tag = "missing" THEN "Missing required parameter: period"
    ELSE IF p.oversold.tag = "missing" THEN "Missing required parameter: oversold"
    ELSE IF p.overbought.tag = "missing" THEN "Missing required parameter: overbought"
    ELSE IF ~IsInt(p.period) \/ p.period.val <= 0
        THEN "period must be positive integer"
    ELSE IF ~IsNumber(p.oversold) \/ PyLe(p.oversold, 0) \/ PyGe(p.oversold, 100)
        THEN "oversold must be between 0 and 100"
    ELSE IF ~IsNumber(p.overbought) \/ PyLe(p.overbought, 0) \/ PyGe(p.overbought, 100)
        THEN "overbought must be between 0 and 100"
    ELSE IF PyGeV(p.oversold, p.overbought)
        THEN "oversold must be less than overbought"
    ELSE "ok"

Validate(s, p) == IF s = "ema" THEN EMAValidate(p) ELSE RSIValidate(p)

(***************************************************************************)
(* The length execute requires of the data.                                *)
(***************************************************************************)
EMARequiredLen(p) == p.long_period.val
RSIRequiredLen(p) == p.period.val + 1

\* execute's test  len(data) < required
TooShort(s, d, p) ==
    IF s = "ema" THEN Len(d.values) < EMARequiredLen(p)
    ELSE Len(d.values) < RSIRequiredLen(p)

\* the exception class execute raises when the data is too short
TooShortError == "StrategyExecutionError"

(***************************************************************************)
(* RSIStrategy._calculate_rsi                                              *)
(***************************************************************************)
\* delta = close.diff(); gains = delta.where(delta > 0, 0): delta[0] is NaN,
\* NaN > 0 is False, so gains[0] = 0.
gains(x) ==
    [k \in 1..Len(x) |->
        IF k = 1 THEN 0 ELSE IF x[k] - x[k - 1] > 0 THEN x[k] - x[k - 1] ELSE 0]

\* losses = -delta.where(delta < 0, 0)
losses(x) ==
    [k \in 1..Len(x) |->
        IF k = 1 THEN 0 ELSE IF x[k] - x[k - 1] < 0 THEN -(x[k] - x[k - 1]) ELSE 0]

\* Mutant of RSIValue: the undefined 0/0 filled with the neutral level 50.
MutRSIValue(g, l) ==
    IF l[1] = 0 THEN (IF g[1] = 0 THEN Num(50) ELSE Num(100))
    ELSE <<100 * (l[1] + g[1]) - 100 * l[1], l[1] + g[1]>>

\* rs = avg_gain / avg_loss; rsi = 100 - (100 / (1 + rs)).  g and l have the
\* same denominator (the same span), so rs = g[1] / l[1].  IEEE division:
\* 0/0 = NaN, x/0 = inf for x > 0, and 100 - 100 / (1 + inf) = 100.
RSIValue(g, l) ==
    IF l[1] = 0 THEN (IF g[1] = 0 THEN NaN ELSE Num(100))
    ELSE <<100 * (l[1] + g[1]) - 100 * l[1], l[1] + g[1]>>

calculate_rsi(x, period) ==
    LET avg_gain == ewm_mean(gains(x), period)
        avg_loss == ewm_mean(losses(x), period)
    IN  [k \in 1..Len(x) |-> RSIValue(avg_gain[k], avg_loss[k])]

(***************************************************************************)
(* State                                                                   *)
(***************************************************************************)
VARIABLES
    pc,             \* position in the call: idle, validate, check_close,
                    \* check_len, calc, loop, done, raised
    call,           \* "none", "execute" or "validate_parameters"
    strategy,       \* "ema" or "rsi": the class of the object called
    data,           \* [columns, values]: the DataFrame argument
    parameters,     \* the parameters dict
    df,             \* the working copy: [close, ema_short, ema_long] or [close, rsi]
    i,              \* loop variable of _simulate_trades
    trades,         \* local list of _simulate_trades
    position_open,  \* local
    entry_price,    \* local
    entry_index,    \* local
    ret,            \* <<>> until the call returns, then <<value>>
    err,            \* [type, msg] of the exception raised, type "none" before
    entries,        \* history: number of entry transitions taken
    exits,          \* history: number of exit transitions taken
    args,           \* arguments of a call of the analytics (calculate, analyze)
    work,           \* locals of that call worth seeing (equity_curve, returns)
    earlier         \* <<>>, or <<the outcome of the same call made before>>

vars == <<pc, call, strategy, data, parameters, df, i, trades, position_open,
          entry_price, entry_index, ret, err, entries, exits, args, work, earlier>>

\* the variables of the analytics calls and the record of an earlier call; no
\* step of a strategy call touches them
analytics == <<args, work, earlier>>

locals == <<i, trades, position_open, entry_price, entry_index, entries, exits>>

NoErr == [type |-> "none", msg |-> ""]
NoDf == [close |-> <<>>]

Init ==
    /\ pc = "idle"
    /\ call = "none"
    /\ strategy = "none"
    /\ data = [columns |-> {}, values |-> <<>>]
    /\ parameters = [none |-> Missing]
    /\ df = NoDf
    /\ i = 0
    /\ trades = <<>>
    /\ position_open = FALSE
    /\ entry_price = 0
    /\ entry_index = 0
    /\ ret = <<>>
    /\ err = NoErr
    /\ entries = 0
    /\ exits = 0
    /\ args = [none |-> 0]
    /\ work = [none |-> 0]
    /\ earlier = <<>>

(***************************************************************************)
(* Inputs tried                                                            *)
(***************************************************************************)
RECURSIVE SeqsUpTo(_, _)
SeqsUpTo(S, n) ==
    IF n = 0 THEN {<<>>}
    ELSE LET shorter == SeqsUpTo(S, n - 1)
         IN  shorter \cup {Append(q, x) : q \in {r \in shorter : Len(r) = n - 1}, x \in S}

\* parameter values handed to validate_parameters called on its own
WidePeriods == {Missing, StrV, FloatV(2), IntV(-5)} \cup {IntV(n) : n \in -1..MaxEMAPeriod}
WideThresholds ==
    {Missing, StrV, FloatNaN, FloatV(45), IntV(-5), IntV(0), IntV(30), IntV(70), IntV(100)}

ValidateInputs(s) ==
    IF s = "ema"
    THEN [short_period : WidePeriods, long_period : WidePeriods]
    ELSE [period : WidePeriods, oversold : WideThresholds, overbought : WideThresholds]

\* the EMA periods of the rising-series test property
RisingTestPeriods == [short_period |-> IntV(3), long_period |-> IntV(5)]

\* price series rising by the same step at every candle
LinearSeries ==
    {[k \in 1..n |-> a + d * (k - 1)] :
        a \in 1..MaxLinearStart, d \in 1..MaxLinearStep, n \in 5..MaxLinearLen}

\* parameter dicts handed to execute
ExecParameters(s) ==
    IF s = "ema"
    THEN [short_period : {Missing} \cup {IntV(n) : n \in 0..MaxEMAPeriod},
          long_period : {Missing} \cup {IntV(n) : n \in 0..MaxEMAPeriod}]
         \cup {RisingTestPeriods}
    ELSE [period : {IntV(n) : n \in 0..MaxRSIPeriod},
          oversold : {IntV(n) : n \in ExecThresholds},
          overbought : {IntV(n) : n \in ExecThresholds}]

\* DataFrames handed to execute: with a close column of every series up to the
\* bound, or without one (then only the number of rows matters)
ExecData(s) ==
    LET maxlen == IF s = "ema" THEN MaxLenEMA ELSE MaxLenRSI
        prices == IF s = "ema" THEN 1..MaxPriceEMA ELSE RSIPrices
    IN  {[columns |-> {"close"}, values |-> v] :
            v \in SeqsUpTo(prices, maxlen) \cup (IF s = "ema" THEN LinearSeries ELSE {})}
        \cup {[columns |-> {"open"}, values |-> [k \in 1..n |-> 1]] : n \in 0..maxlen}

(***************************************************************************)
(* Calls                                                                   *)
(***************************************************************************)
Raise(type, msg) ==
    /\ err' = [type |-> type, msg |-> msg]
    /\ pc' = "raised"

\* strategy.validate_parameters(p), lines 63-94 (EMA) and 68-108 (RSI)
CallValidateParameters ==
    /\ pc = "idle"
    /\ \E s \in {"ema", "rsi"} : \E p \in ValidateInputs(s) :
        /\ call' = "validate_parameters"
        /\ strategy' = s
        /\ parameters' = p
        /\ IF Validate(s, p) = "ok"
           THEN /\ ret' = <<TRUE>>
                /\ pc' = "done"
                /\ err' = err
           ELSE /\ Raise("ValueError", Validate(s, p))
                /\ ret' = ret
    /\ UNCHANGED <<data, df, locals>>
    /\ UNCHANGED analytics

\* strategy.execute(d, p) is entered
CallExecute ==
    /\ pc = "idle"
    /\ \E s \in {"ema", "rsi"} : \E d \in ExecData(s) : \E p \in ExecParameters(s) :
        /\ call' = "execute"
        /\ strategy' = s
        /\ data' = d
        /\ parameters' = p
    /\ pc' = "validate"
    /\ UNCHANGED <<df, locals, ret, err>>
    /\ UNCHANGED analytics

\* the outcome of a call that has ended
Outcome == [pc |-> pc, ret |-> ret, err |-> err]

\* strategy.execute(data, parameters) is called again on the same object with
\* the same arguments. The locals of the first call are gone (they are as
\* before a call); the object and the caller's data are what they were, since
\* execute sets no attribute and works on data.copy().
RepeatExecute ==
    /\ pc \in {"done", "raised"}
    /\ call = "execute"
    /\ earlier = <<>>
    /\ Len(data.values) <= MaxRepeatLen
    /\ earlier' = <<Outcome>>
    /\ ret' = <<>>
    /\ err' = NoErr
    /\ df' = NoDf
    /\ i' = 0
    /\ trades' = <<>>
    /\ position_open' = FALSE
    /\ entry_price' = 0
    /\ entry_index' = 0
    /\ entries' = 0
    /\ exits' = 0
    /\ pc' = "validate"
    /\ UNCHANGED <<call, strategy, data, parameters, args, work>>

\* execute: self.validate_parameters(parameters)
ExecValidate ==
    /\ pc = "validate"
    /\ IF Validate(strategy, parameters) = "ok"
       THEN pc' = "check_close" /\ err' = err
       ELSE Raise("ValueError", Validate(strategy, parameters))
    /\ UNCHANGED <<call, strategy, data, parameters, df, locals, ret>>
    /\ UNCHANGED analytics

\* Mutant of ExecCheckClose: the column test left out.
MutExecCheckClose ==
    /\ pc = "check_close"
    /\ pc' = "check_len"
    /\ UNCHANGED <<call, strategy, data, parameters, df, locals, ret, err>>
    /\ UNCHANGED analytics

\* execute: if 'close' not in data.columns: raise
ExecCheckClose ==
    /\ pc = "check_close"
    /\ IF "close" \notin data.columns
       THEN Raise("StrategyExecutionError", "Data must contain 'close' column")
       ELSE pc' = "check_len" /\ err' = err
    /\ UNCHANGED <<call, strategy, data, parameters, df, locals, ret>>
    /\ UNCHANGED analytics

\* execute: if len(data) < required: raise
ExecCheckLen ==
    /\ pc = "check_len"
    /\ IF TooShort(strategy, data, parameters)
       THEN Raise(TooShortError, "Insufficient data")
       ELSE pc' = "calc" /\ err' = err
    /\ UNCHANGED <<call, strategy, data, parameters, df, locals, ret>>
    /\ UNCHANGED analytics

\* Mutant of calculate_ema: the two spans given to the wrong columns.
Mut_calculate_ema(x, short_period, long_period) ==
    [close |-> x,
     ema_short |-> [k \in 1..Len(x) |-> Reduce(ewm_mean(x, long_period)[k])],
     ema_long |-> [k \in 1..Len(x) |-> Reduce(ewm_mean(x, short_period)[k])]]

\* EMAStrategy._calculate_ema on data.copy() (the fractions kept in lowest terms)
calculate_ema(x, short_period, long_period) ==
    [close |-> x,
     ema_short |-> [k \in 1..Len(x) |-> Reduce(ewm_mean(x, short_period)[k])],
     ema_long |-> [k \in 1..Len(x) |-> Reduce(ewm_mean(x, long_period)[k])]]

\* Mutant of ExecCalculate: the list of trades kept on the strategy object and
\* not cleared, so that a second call goes on from the list of the first.
MutExecCalculate ==
    /\ pc = "calc"
    /\ df' = IF strategy = "ema"
             THEN calculate_ema(data.values, parameters.short_period.val,
                                parameters.long_period.val)
             ELSE [close |-> data.values,
                   rsi |-> calculate_rsi(data.values, parameters.period.val)]
    /\ i' = 1
    /\ trades' = IF earlier = <<>> \/ earlier[1].ret = <<>> THEN <<>>
                 ELSE earlier[1].ret[1]
    /\ position_open' = FALSE
    /\ entry_price' = 0
    /\ entry_index' = 0
    /\ pc' = "loop"
    /\ UNCHANGED <<call, strategy, data, parameters, ret, err, entries, exits>>
    /\ UNCHANGED analytics

\* execute: df = self._calculate_...(data.copy(), ...), then _simulate_trades
\* starts: trades = [], position_open = False, entry_price = 0, entry_index = 0
ExecCalculate ==
    /\ pc = "calc"
    /\ df' = IF strategy = "ema"
             THEN calculate_ema(data.values, parameters.short_period.val,
                                parameters.long_period.val)
             ELSE [close |-> data.values,
                   rsi |-> calculate_rsi(data.values, parameters.period.val)]
    /\ i' = 1
    /\ trades' = <<>>
    /\ position_open' = FALSE
    /\ entry_price' = 0
    /\ entry_index' = 0
    /\ pc' = "loop"
    /\ UNCHANGED <<call, strategy, data, parameters, ret, err, entries, exits>>
    /\ UNCHANGED analytics

(***************************************************************************)
(* EMAStrategy._simulate_trades, one action per branch of the loop body    *)
(***************************************************************************)
InLoop(s) == pc = "loop" /\ strategy = s /\ i < Len(df.close)

\* Mutant of trade_return: the return taken relative to the exit price.
Mut_trade_return(entry, exit) == <<exit - entry, exit>>

\* trade_return = (exit_price - entry_price) / entry_price
trade_return(entry, exit) == <<exit - entry, entry>>

\* if pd.isna(current_short) or pd.isna(current_long): continue
EMASkip == isna(iloc(df.ema_short, i)) \/ isna(iloc(df.ema_long, i))

\* Mutant of EMABuySignal: the previous bar compared strictly.
MutEMABuySignal ==
    /\ ~position_open
    /\ Gt(iloc(df.ema_short, i), iloc(df.ema_long, i))
    /\ Lt(iloc(df.ema_short, i - 1), iloc(df.ema_long, i - 1))

\* not position_open and current_short > current_long and prev_short <= prev_long
EMABuySignal ==
    /\ ~position_open
    /\ Gt(iloc(df.ema_short, i), iloc(df.ema_long, i))
    /\ Le(iloc(df.ema_short, i - 1), iloc(df.ema_long, i - 1))

\* position_open and current_short < current_long and prev_short >= prev_long
EMASellSignal ==
    /\ position_open
    /\ Lt(iloc(df.ema_short, i), iloc(df.ema_long, i))
    /\ Ge(iloc(df.ema_short, i - 1), iloc(df.ema_long, i - 1))

\* Mutant of EMATrade: the two indices written the wrong way round.
MutEMATrade(exit_price) ==
    [entry_price |-> entry_price,
     exit_price |-> exit_price,
     return |-> trade_return(entry_price, exit_price),
     entry_index |-> i,
     exit_index |-> entry_index]

EMATrade(exit_price) ==
    [entry_price |-> entry_price,
     exit_price |-> exit_price,
     return |-> trade_return(entry_price, exit_price),
     entry_index |-> entry_index,
     exit_index |-> i]

\* Golden cross: lines 146-150
EMAEnter ==
    /\ InLoop("ema")
    /\ ~EMASkip
    /\ EMABuySignal
    /\ position_open' = TRUE
    /\ entry_price' = iloc(df.close, i)
    /\ entry_index' = i
    /\ entries' = entries + 1
    /\ i' = i + 1
    /\ UNCHANGED <<pc, call, strategy, data, parameters, df, trades, ret, err, exits>>
    /\ UNCHANGED analytics

\* Death cross: lines 153-166
EMAExit ==
    /\ InLoop("ema")
    /\ ~EMASkip
    /\ ~EMABuySignal
    /\ EMASellSignal
    /\ trades' = Append(trades, EMATrade(iloc(df.close, i)))
    /\ position_open' = FALSE
    /\ exits' = exits + 1
    /\ i' = i + 1
    /\ UNCHANGED <<pc, call, strategy, data, parameters, df, entry_price, entry_index,
                   ret, err, entries>>
    /\ UNCHANGED analytics

\* neither branch (or the NaN continue): the loop moves on
EMAHold ==
    /\ InLoop("ema")
    /\ EMASkip \/ (~EMABuySignal /\ ~EMASellSignal)
    /\ i' = i + 1
    /\ UNCHANGED <<pc, call, strategy, data, parameters, df, trades, position_open,
                   entry_price, entry_index, ret, err, entries, exits>>
    /\ UNCHANGED analytics

(***************************************************************************)
(* RSIStrategy._simulate_trades                                            *)
(***************************************************************************)
ParamNumber(v) == IF v.tag = "nan" THEN NaN ELSE Num(v.val)
oversold == ParamNumber(parameters.oversold)
overbought == ParamNumber(parameters.overbought)

\* the mid level of the alternative exit, line 207
MidLevel == 50

\* the bars a position must be held before the mid-level exit, line 207
MinHoldBars == 5

\* if pd.isna(current_rsi) or pd.isna(prev_rsi): continue
RSISkip == isna(iloc(df.rsi, i)) \/ isna(iloc(df.rsi, i - 1))

\* Mutant of RSIBuySignal: the test of position_open left out.
MutRSIBuySignalWhileLong ==
    /\ Lt(iloc(df.rsi, i), oversold)
    /\ Ge(iloc(df.rsi, i - 1), oversold)

\* Mutant of RSIBuySignal: a level test instead of a crossing.
MutRSIBuySignalLevel ==
    /\ ~position_open
    /\ Lt(iloc(df.rsi, i), oversold)

\* not position_open and current_rsi < oversold and prev_rsi >= oversold
RSIBuySignal ==
    /\ ~position_open
    /\ Lt(iloc(df.rsi, i), oversold)
    /\ Ge(iloc(df.rsi, i - 1), oversold)

\* Mutant of RSIOverboughtSignal: the holding period of the mid-level exit
\* applied to the take-profit exit too.
MutRSIOverboughtSignal ==
    /\ position_open
    /\ Gt(iloc(df.rsi, i), overbought)
    /\ Le(iloc(df.rsi, i - 1), overbought)
    /\ i > entry_index + MinHoldBars

\* Mutant of RSIOverboughtSignal: the crossing taken downwards, where it can
\* coincide with the mid-level exit.
MutRSIOverboughtSignalDown ==
    /\ position_open
    /\ Lt(iloc(df.rsi, i), overbought)
    /\ Ge(iloc(df.rsi, i - 1), overbought)

\* position_open and current_rsi > overbought and prev_rsi <= overbought
RSIOverboughtSignal ==
    /\ position_open
    /\ Gt(iloc(df.rsi, i), overbought)
    /\ Le(iloc(df.rsi, i - 1), overbought)

\* Mutant of RSIMidLevelSignal: i >= entry_index + 5.
MutRSIMidLevelSignal ==
    /\ position_open
    /\ Lt(iloc(df.rsi, i), Num(MidLevel))
    /\ Ge(iloc(df.rsi, i - 1), Num(MidLevel))
    /\ i >= entry_index + MinHoldBars

\* position_open and current_rsi < 50 and prev_rsi >= 50 and i > entry_index + 5
RSIMidLevelSignal ==
    /\ position_open
    /\ Lt(iloc(df.rsi, i), Num(MidLevel))
    /\ Ge(iloc(df.rsi, i - 1), Num(MidLevel))
    /\ i > entry_index + MinHoldBars

RSITrade(exit_price, reason) ==
    [entry_price |-> entry_price,
     exit_price |-> exit_price,
     return |-> trade_return(entry_price, exit_price),
     entry_index |-> entry_index,
     exit_index |-> i,
     exit_reason |-> reason]

\* the NaN continue: lines 174-175
RSIContinue ==
    /\ InLoop("rsi")
    /\ RSISkip
    /\ i' = i + 1
    /\ UNCHANGED <<pc, call, strategy, data, parameters, df, trades, position_open,
                   entry_price, entry_index, ret, err, entries, exits>>
    /\ UNCHANGED analytics

\* Buy: lines 178-184
RSIEnter ==
    /\ InLoop("rsi")
    /\ ~RSISkip
    /\ RSIBuySignal
    /\ position_open' = TRUE
    /\ entry_price' = iloc(df.close, i)
    /\ entry_index' = i
    /\ entries' = entries + 1
    /\ i' = i + 1
    /\ UNCHANGED <<pc, call, strategy, data, parameters, df, trades, ret, err, exits>>
    /\ UNCHANGED analytics

\* Take profit: lines 187-204
RSIExitOverbought ==
    /\ InLoop("rsi")
    /\ ~RSISkip
    /\ ~RSIBuySignal
    /\ RSIOverboughtSignal
    /\ trades' = Append(trades, RSITrade(iloc(df.close, i), "overbought"))
    /\ position_open' = FALSE
    /\ exits' = exits + 1
    /\ i' = i + 1
    /\ UNCHANGED <<pc, call, strategy, data, parameters, df, entry_price, entry_index,
                   ret, err, entries>>
    /\ UNCHANGED analytics

\* Mid-level stop: lines 207-224
RSIExitMidLevel ==
    /\ InLoop("rsi")
    /\ ~RSISkip
    /\ ~RSIBuySignal
    /\ ~RSIOverboughtSignal
    /\ RSIMidLevelSignal
    /\ trades' = Append(trades, RSITrade(iloc(df.close, i), "mid_level_exit"))
    /\ position_open' = FALSE
    /\ exits' = exits + 1
    /\ i' = i + 1
    /\ UNCHANGED <<pc, call, strategy, data, parameters, df, entry_price, entry_index,
                   ret, err, entries>>
    /\ UNCHANGED analytics

\* no branch taken
RSIHold ==
    /\ InLoop("rsi")
    /\ ~RSISkip
    /\ ~RSIBuySignal
    /\ ~RSIOverboughtSignal
    /\ ~RSIMidLevelSignal
    /\ i' = i + 1
    /\ UNCHANGED <<pc, call, strategy, data, parameters, df, trades, position_open,
                   entry_price, entry_index, ret, err, entries, exits>>
    /\ UNCHANGED analytics

\* Mutant of ExecReturn: a position still open is closed at the last price.
MutExecReturn ==
    /\ pc = "loop"
    /\ i >= Len(df.close)
    /\ ret' = <<IF position_open
                THEN Append(trades,
                            [entry_price |-> entry_price,
                             exit_price |-> iloc(df.close, i - 1),
                             return |-> trade_return(entry_price, iloc(df.close, i - 1)),
                             entry_index |-> entry_index,
                             exit_index |-> i - 1])
                ELSE trades>>
    /\ pc' = "done"
    /\ UNCHANGED <<call, strategy, data, parameters, df, locals, err>>
    /\ UNCHANGED analytics

\* the loop is exhausted: _simulate_trades returns trades and execute returns it
ExecReturn ==
    /\ pc = "loop"
    /\ i >= Len(df.close)
    /\ ret' = <<trades>>
    /\ pc' = "done"
    /\ UNCHANGED <<call, strategy, data, parameters, df, locals, err>>
    /\ UNCHANGED analytics

(***************************************************************************)
(* Exact arithmetic for the analytics.  Every result is in lowest terms,   *)
(* and sums and products cancel common factors first so that no            *)
(* intermediate number grows beyond the result.                            *)
(***************************************************************************)
LCM(a, b) == (a \div GCD(a, b)) * b

RAdd(a, b) ==
    LET l == LCM(a[2], b[2])
    IN  Reduce(<<a[1] * (l \div a[2]) + b[1] * (l \div b[2]), l>>)

RNeg(a) == <<-a[1], a[2]>>

RSub(a, b) == RAdd(a, RNeg(b))

RMul(a, b) ==
    LET g1 == GCD(Abs(a[1]), b[2])
        g2 == GCD(Abs(b[1]), a[2])
    IN  <<(a[1] \div g1) * (b[1] \div g2), (a[2] \div g2) * (b[2] \div g1)>>

\* a / b for b # 0
RDiv(a, b) == RMul(a, IF b[1] > 0 THEN <<b[2], b[1]>> ELSE <<-b[2], -b[1]>>)

RLess(a, b) ==
    LET l == LCM(a[2], b[2])
    IN  a[1] * (l \div a[2]) < b[1] * (l \div b[2])

RECURSIVE LongDivision(_, _, _, _)
LongDivision(acc, rem, den, digits) ==
    IF digits = 0 THEN <<acc, rem>>
    ELSE LongDivision(acc * 10 + (rem * 10) \div den, (rem * 10) % den, den, digits - 1)

\* round(a, 4): the nearest multiple of 1/10000, a tie going to the even one,
\* written <<k, 10000>>
Round4(a) ==
    LET d == LongDivision(Abs(a[1]) \div a[2], Abs(a[1]) % a[2], a[2], 4)
        up == 2 * d[2] > a[2] \/ (2 * d[2] = a[2] /\ d[1] % 2 = 1)
        k == IF up THEN d[1] + 1 ELSE d[1]
    IN  <<IF a[1] < 0 THEN -k ELSE k, 10000>>

RECURSIVE RSum(_)
RSum(xs) == IF xs = <<>> THEN Num(0) ELSE RAdd(xs[1], RSum(Tail(xs)))

\* np.mean
Mean(xs) == RDiv(RSum(xs), Num(Len(xs)))

\* np.std(xs) ** 2: the population variance
Variance(xs) ==
    LET m == Mean(xs)
    IN  RDiv(RSum([k \in 1..Len(xs) |-> RMul(RSub(xs[k], m), RSub(xs[k], m))]),
             Num(Len(xs)))

(***************************************************************************)
(* MetricsCalculator.calculate                                             *)
(***************************************************************************)
\* the returns of a list of trade dicts: [trade['return'] for trade in trades]
ReturnsOf(ts) == [k \in 1..Len(ts) |-> ts[k].return]

\* an empty list reported as one trade
MutEmptyMetrics ==
    [win_rate |-> Num(0),
     total_return |-> Num(0),
     max_drawdown |-> Num(0),
     sharpe_ratio |-> [zero |-> TRUE, mean |-> Num(0), variance |-> Num(0)],
     total_trades |-> 1]

\* lines 27-34
EmptyMetrics ==
    [win_rate |-> Num(0),
     total_return |-> Num(0),
     max_drawdown |-> Num(0),
     sharpe_ratio |-> [zero |-> TRUE, mean |-> Num(0), variance |-> Num(0)],
     total_trades |-> 0]

\* lines 37-38: winning_trades / len(trades)
WinRate(ts) ==
    <<Cardinality({k \in 1..Len(ts) : RLess(Num(0), ts[k].return)}), Len(ts)>>

\* capital multiplied by the return instead of by 1 + return
MutCompound(capital, r) == RMul(capital, r)

\* line 45: capital *= (1 + trade['return'])
Compound(capital, r) == RMul(capital, RAdd(Num(1), r))

\* lines 41-46: equity_curve
RECURSIVE EquityCurve(_, _)
EquityCurve(ts, initial_capital) ==
    IF ts = <<>> THEN <<Num(initial_capital)>>
    ELSE LET before == EquityCurve(SubSeq(ts, 1, Len(ts) - 1), initial_capital)
         IN  Append(before, Compound(before[Len(before)], ts[Len(ts)].return))

\* line 57: drawdown = (peak - value) / peak if peak > 0 else 0
Drawdown(peak, value) ==
    IF RLess(Num(0), peak) THEN RDiv(RSub(peak, value), peak) ELSE Num(0)

\* lines 51-59: the loop over equity_curve from position k on
RECURSIVE DrawdownLoop(_, _, _, _)
DrawdownLoop(curve, k, peak, max_drawdown) ==
    IF k > Len(curve) THEN max_drawdown
    ELSE LET value == curve[k]
             new_peak == IF RLess(peak, value) THEN value ELSE peak
             drawdown == Drawdown(new_peak, value)
         IN  DrawdownLoop(curve, k + 1, new_peak,
                          IF RLess(max_drawdown, drawdown) THEN drawdown
                          ELSE max_drawdown)

MaxDrawdown(curve) == DrawdownLoop(curve, 1, curve[1], Num(0))

\* lines 62-66.  np.mean(returns) / np.std(returns) is not a fraction; it is
\* kept as its mean and its variance, and zero says that the else branch
\* (sharpe_ratio = 0.0) was taken.
SharpeRatio(returns) ==
    IF Len(returns) > 1 /\ RLess(Num(0), Variance(returns))
    THEN [zero |-> FALSE, mean |-> Mean(returns), variance |-> Variance(returns)]
    ELSE [zero |-> TRUE, mean |-> Num(0), variance |-> Num(0)]

\* lines 36-74
MetricsCalculate(ts, initial_capital) ==
    IF Len(ts) = 0 THEN EmptyMetrics
    ELSE LET equity_curve == EquityCurve(ts, initial_capital)
             capital == equity_curve[Len(equity_curve)]
             total_return ==
                 RDiv(RSub(capital, Num(initial_capital)), Num(initial_capital))
         IN  [win_rate |-> Round4(WinRate(ts)),
              total_return |-> Round4(total_return),
              max_drawdown |-> Round4(MaxDrawdown(equity_curve)),
              sharpe_ratio |-> SharpeRatio(ReturnsOf(ts)),
              total_trades |-> Len(ts)]

\* trade returns tried: -150%, -10%, -5%, 0, +10%, +20%
MetricReturns ==
    {<<-3, 2>>, <<-1, 10>>, <<-1, 20>>, <<0, 1>>, <<1, 10>>, <<1, 5>>}

MetricTrades == {[return |-> r] : r \in MetricReturns}

\* initial_capital tried with a non-empty list (> 0: with 0 line 48 divides by
\* zero) and with an empty one
PositiveCapitals == {1, 1000}
AnyCapitals == {-1, 0, 1, 1000}

\* MetricsCalculator.calculate(ts, c)
CallMetricsCalculate ==
    /\ pc = "idle"
    /\ \E ts \in SeqsUpTo(MetricTrades, MaxTrades) :
       \E c \in (IF ts = <<>> THEN AnyCapitals ELSE PositiveCapitals) :
        /\ args' = [trades |-> ts, initial_capital |-> c]
        /\ work' = [equity_curve |-> IF ts = <<>> THEN <<>> ELSE EquityCurve(ts, c)]
        /\ ret' = <<MetricsCalculate(ts, c)>>
    /\ call' = "calculate"
    /\ pc' = "done"
    /\ UNCHANGED <<strategy, data, parameters, df, locals, err, earlier>>

(***************************************************************************)
(* RiskAnalyzer                                                            *)
(***************************************************************************)
\* a trade is a dict or an object, with or without the keys 'return' and
\* 'return_pct'
DictReturn(r) == [kind |-> "dict", return |-> r]
DictBare == [kind |-> "dict"]
ObjectReturnPct(r) == [kind |-> "object", return_pct |-> r]

\* lines 50-55: trade.get('return', trade.get('return_pct', 0)) for a dict,
\* getattr(trade, 'return_pct', getattr(trade, 'return', 0)) otherwise
TradeReturn(t) ==
    IF t.kind = "dict"
    THEN IF "return" \in DOMAIN t THEN t.return
         ELSE IF "return_pct" \in DOMAIN t THEN t.return_pct
         ELSE Num(0)
    ELSE IF "return_pct" \in DOMAIN t THEN t.return_pct
         ELSE IF "return" \in DOMAIN t THEN t.return
         ELSE Num(0)

\* lines 48-55
ExtractReturns(ts) == [k \in 1..Len(ts) |-> TradeReturn(ts[k])]

\* an empty list classified as Medium
MutEmptyRisk ==
    [return_volatility |-> [variance |-> Num(0)],
     max_consecutive_losses |-> 0,
     largest_loss |-> Num(0),
     avg_loss |-> Num(0),
     risk_level |-> "Medium",
     value_at_risk_95 |-> Num(0)]

\* lines 36-45
EmptyRisk ==
    [return_volatility |-> [variance |-> Num(0)],
     max_consecutive_losses |-> 0,
     largest_loss |-> Num(0),
     avg_loss |-> Num(0),
     risk_level |-> "Low",
     value_at_risk_95 |-> Num(0)]

\* lines 74-87.  np.std(returns) is not a fraction: the volatility is kept as
\* its square, the population variance.
calculate_return_volatility(returns) ==
    IF Len(returns) < 2 THEN [variance |-> Num(0)]
    ELSE [variance |-> Variance(returns)]

\* a return of exactly 0 counted as a loss
MutLosingReturn(r) == ~RLess(Num(0), r)

\* line 103: if ret < 0
LosingReturn(r) == RLess(r, Num(0))

\* lines 99-107: current_consecutive and max_consecutive after each iteration
\* of the loop
RECURSIVE ConsecutiveLosses(_)
ConsecutiveLosses(returns) ==
    IF returns = <<>> THEN <<>>
    ELSE LET n == Len(returns)
             before == ConsecutiveLosses(SubSeq(returns, 1, n - 1))
             last == IF n = 1 THEN [current |-> 0, max |-> 0] ELSE before[n - 1]
         IN  Append(before,
                    IF LosingReturn(returns[n])
                    THEN [current |-> last.current + 1,
                          max |-> IF last.max > last.current + 1 THEN last.max
                                  ELSE last.current + 1]
                    ELSE [current |-> 0, max |-> last.max])

\* lines 89-109
calculate_max_consecutive_losses(returns) ==
    IF returns = <<>> THEN 0
    ELSE ConsecutiveLosses(returns)[Len(returns)].max

\* a return of exactly 0 taken for a loss
MutLossesOf(returns) == SelectSeq(returns, LAMBDA r : ~RLess(Num(0), r))

\* lines 121, 138: losses = [r for r in returns if r < 0]
LossesOf(returns) == SelectSeq(returns, LAMBDA r : RLess(r, Num(0)))

RECURSIVE RMin(_)
RMin(xs) ==
    IF Len(xs) = 1 THEN xs[1]
    ELSE LET m == RMin(Tail(xs)) IN IF RLess(m, xs[1]) THEN m ELSE xs[1]

\* lines 111-126
calculate_largest_loss(returns) ==
    IF LossesOf(returns) = <<>> THEN Num(0) ELSE RMin(LossesOf(returns))

\* lines 128-143
calculate_avg_loss(returns) ==
    IF LossesOf(returns) = <<>> THEN Num(0) ELSE Mean(LossesOf(returns))

RECURSIVE Insert(_, _)
Insert(x, sorted) ==
    IF sorted = <<>> THEN <<x>>
    ELSE IF RLess(sorted[1], x) THEN <<sorted[1]>> \o Insert(x, Tail(sorted))
    ELSE <<x>> \o sorted

RECURSIVE SortReturns(_)
SortReturns(xs) == IF xs = <<>> THEN <<>> ELSE Insert(xs[1], SortReturns(Tail(xs)))

\* lines 145-165: np.percentile(returns, 5), the linear interpolation at
\* position (n - 1) * 5 / 100 of the sorted returns
calculate_value_at_risk(returns) ==
    IF Len(returns) < 2 THEN Num(0)
    ELSE LET sorted == SortReturns(returns)
             n == Len(returns)
             lo == ((n - 1) * 5) \div 100
             frac == Reduce(<<((n - 1) * 5) % 100, 100>>)
         IN  IF frac[1] = 0 THEN sorted[lo + 1]
             ELSE RAdd(sorted[lo + 1], RMul(frac, RSub(sorted[lo + 2], sorted[lo + 1])))

\* the comparisons of the three bands taken as >= and <=
MutRiskScore(volatility, max_consecutive_losses, largest_loss) ==
    (IF ~RLess(volatility.variance, <<9, 400>>) THEN 2
     ELSE IF ~RLess(volatility.variance, <<4, 625>>) THEN 1 ELSE 0)
    + (IF max_consecutive_losses >= 5 THEN 2
       ELSE IF max_consecutive_losses >= 3 THEN 1 ELSE 0)
    + (IF ~RLess(<<-3, 20>>, largest_loss) THEN 2
       ELSE IF ~RLess(<<-2, 25>>, largest_loss) THEN 1 ELSE 0)

\* lines 178-197: risk_score; volatility > 0.15 is variance > 0.0225 and
\* volatility > 0.08 is variance > 0.0064
RiskScore(volatility, max_consecutive_losses, largest_loss) ==
    (IF RLess(<<9, 400>>, volatility.variance) THEN 2
     ELSE IF RLess(<<4, 625>>, volatility.variance) THEN 1 ELSE 0)
    + (IF max_consecutive_losses > 5 THEN 2
       ELSE IF max_consecutive_losses > 3 THEN 1 ELSE 0)
    + (IF RLess(largest_loss, <<-3, 20>>) THEN 2
       ELSE IF RLess(largest_loss, <<-2, 25>>) THEN 1 ELSE 0)

\* a score of 4 classified as High
MutRiskLevel(risk_score) ==
    IF risk_score <= 2 THEN "Low"
    ELSE IF risk_score <= 3 THEN "Medium"
    ELSE "High"

\* lines 199-205
RiskLevel(risk_score) ==
    IF risk_score <= 2 THEN "Low"
    ELSE IF risk_score <= 4 THEN "Medium"
    ELSE "High"

\* lines 167-205
classify_risk(volatility, max_consecutive_losses, largest_loss) ==
    RiskLevel(RiskScore(volatility, max_consecutive_losses, largest_loss))

\* lines 29-72
RiskAnalyze(ts) ==
    IF ts = <<>> THEN EmptyRisk
    ELSE LET returns == ExtractReturns(ts)
             return_volatility == calculate_return_volatility(returns)
             max_consecutive_losses == calculate_max_consecutive_losses(returns)
             largest_loss == calculate_largest_loss(returns)
         IN  [return_volatility |-> return_volatility,
              max_consecutive_losses |-> max_consecutive_losses,
              largest_loss |-> Round4(largest_loss),
              avg_loss |-> Round4(calculate_avg_loss(returns)),
              risk_level |-> classify_risk(return_volatility, max_consecutive_losses,
                                           largest_loss),
              value_at_risk_95 |-> Round4(calculate_value_at_risk(returns))]

\* returns tried: -10%, -5%, 0, +10%, +20%
RiskReturns == {<<-1, 10>>, <<-1, 20>>, <<0, 1>>, <<1, 10>>, <<1, 5>>}

RiskTrades ==
    {DictReturn(r) : r \in RiskReturns} \cup {DictBare, ObjectReturnPct(<<-1, 10>>)}

\* trades of longer lists: -50%, -5%, +20%
HeavyTrades == {DictReturn(<<-1, 2>>), DictReturn(<<-1, 20>>), DictReturn(<<1, 5>>)}

\* RiskAnalyzer(ts, 1000).analyze()
CallRiskAnalyze ==
    /\ pc = "idle"
    /\ \E ts \in SeqsUpTo(RiskTrades, MaxRiskTrades)
                  \cup SeqsUpTo(HeavyTrades, MaxHeavyTrades) :
        /\ args' = [trades |-> ts, initial_capital |-> 1000]
        /\ work' = [returns |-> ExtractReturns(ts),
                    consecutive |-> ConsecutiveLosses(ExtractReturns(ts)),
                    largest_loss |-> calculate_largest_loss(ExtractReturns(ts)),
                    avg_loss |-> calculate_avg_loss(ExtractReturns(ts))]
        /\ ret' = <<RiskAnalyze(ts)>>
    /\ call' = "analyze"
    /\ pc' = "done"
    /\ UNCHANGED <<strategy, data, parameters, df, locals, err, earlier>>

\* volatilities handed to _classify_risk, as their squares: 0, 0.08, 0.1,
\* 0.15, 0.2
ClassifyVolatilities ==
    {[variance |-> v] : v \in {<<0, 1>>, <<4, 625>>, <<1, 100>>, <<9, 400>>, <<1, 25>>}}

\* largest losses handed to _classify_risk
ClassifyLosses == {<<0, 1>>, <<-2, 25>>, <<-1, 10>>, <<-3, 20>>, <<-1, 5>>}

\* RiskAnalyzer._classify_risk(volatility, max_consecutive_losses, largest_loss)
CallClassifyRisk ==
    /\ pc = "idle"
    /\ \E v \in ClassifyVolatilities : \E n \in 0..MaxConsecutive :
       \E l \in ClassifyLosses :
        /\ args' = [volatility |-> v, max_consecutive_losses |-> n, largest_loss |-> l]
        /\ work' = [risk_score |-> RiskScore(v, n, l)]
        /\ ret' = <<classify_risk(v, n, l)>>
    /\ call' = "classify_risk"
    /\ pc' = "done"
    /\ UNCHANGED <<strategy, data, parameters, df, locals, err, earlier>>

(***************************************************************************)
(* MarketRegimeAnalyzer                                                    *)
(***************************************************************************)
\* lines 68-71: np.polyfit(x, close, 1) with x = 0, 1, ..., n-1, the least
\* squares line, as <<slope, intercept>>
polyfit(close) ==
    LET n == Len(close)
        x == [k \in 1..n |-> Num(k - 1)]
        y == [k \in 1..n |-> Num(close[k])]
        mean_x == Mean(x)
        mean_y == Mean(y)
        sxy == RSum([k \in 1..n |-> RMul(RSub(x[k], mean_x), RSub(y[k], mean_y))])
        sxx == RSum([k \in 1..n |-> RMul(RSub(x[k], mean_x), RSub(x[k], mean_x))])
        slope == RDiv(sxy, sxx)
    IN  <<slope, RSub(mean_y, RMul(slope, mean_x))>>

\* lines 56-82
calculate_trend_strength(close) ==
    LET n == Len(close)
        y == [k \in 1..n |-> Num(close[k])]
        line == polyfit(close)
        y_pred == [k \in 1..n |-> RAdd(RMul(line[1], Num(k - 1)), line[2])]
        ss_res == RSum([k \in 1..n |-> RMul(RSub(y[k], y_pred[k]), RSub(y[k], y_pred[k]))])
        mean_y == Mean(y)
        ss_tot == RSum([k \in 1..n |-> RMul(RSub(y[k], mean_y), RSub(y[k], mean_y))])
        r_squared == RSub(Num(1), RDiv(ss_res, ss_tot))
    IN  IF ss_tot[1] = 0 THEN Num(0)
        ELSE <<Abs(r_squared[1]), r_squared[2]>>

\* line 91: np.diff(close) / close[:-1]; a division by a close of 0 gives an
\* infinity or NaN, written NaN here: either makes np.std NaN
period_returns(close) ==
    [k \in 1..(Len(close) - 1) |->
        IF close[k] = 0 THEN NaN ELSE Reduce(<<close[k + 1] - close[k], close[k]>>)]

\* lines 84-101.  np.std(returns) * np.sqrt(24 * 365) is not a fraction: the
\* volatility is kept as its square, the variance times 24 * 365.
calculate_volatility(close) ==
    LET returns == period_returns(close)
    IN  IF Len(returns) = 0 THEN [squared |-> Num(0)]
        ELSE IF \E k \in 1..Len(returns) : isna(returns[k]) THEN [squared |-> NaN]
        ELSE [squared |-> RMul(Variance(returns), Num(24 * 365))]

\* the trend tested before the volatility
Mut_classify_regime(trend_strength, volatility) ==
    IF Gt(trend_strength, <<3, 5>>) THEN "Trending"
    ELSE IF Gt(volatility.squared, <<9, 4>>) THEN "Volatile"
    ELSE "Ranging"

\* lines 103-123; volatility > 1.5 is squared > 2.25
classify_regime(trend_strength, volatility) ==
    IF Gt(volatility.squared, <<9, 4>>) THEN "Volatile"
    ELSE IF Gt(trend_strength, <<3, 5>>) THEN "Trending"
    ELSE "Ranging"

\* lines 125-140; volatility < 0.5 is squared < 0.25
classify_volatility(volatility) ==
    IF Lt(volatility.squared, <<1, 4>>) THEN "Low"
    ELSE IF Lt(volatility.squared, <<9, 4>>) THEN "Medium"
    ELSE "High"

\* line 41: (close[-1] - close[0]) / close[0]
price_change_pct(close) ==
    IF close[1] = 0 THEN NaN
    ELSE Reduce(<<close[Len(close)] - close[1], close[1]>>)

\* lines 27-54
RegimeAnalyze(close) ==
    LET trend_strength == calculate_trend_strength(close)
        volatility == calculate_volatility(close)
        change == price_change_pct(close)
    IN  [regime |-> classify_regime(trend_strength, volatility),
         trend_strength |-> Round4(trend_strength),
         volatility_level |-> classify_volatility(volatility),
         volatility_value |-> volatility,
         price_change_pct |-> IF isna(change) THEN NaN ELSE Round4(change)]

\* close series of 2..MaxRegimeLen candles
RegimeSeries ==
    {q \in SeqsUpTo(0..MaxRegimePrice, MaxRegimeLen) : Len(q) >= 2}

\* MarketRegimeAnalyzer(DataFrame({'close': close})).analyze()
CallRegimeAnalyze ==
    /\ pc = "idle"
    /\ \E close \in RegimeSeries :
        /\ args' = [close |-> close]
        /\ work' = [trend_strength |-> calculate_trend_strength(close),
                    volatility |-> calculate_volatility(close)]
        /\ ret' = <<RegimeAnalyze(close)>>
    /\ call' = "regime_analyze"
    /\ pc' = "done"
    /\ UNCHANGED <<strategy, data, parameters, df, locals, err, earlier>>

\* trend strengths handed to the classifiers: 0, 0.6, 0.7, 1
ClassifyTrends == {<<0, 1>>, <<3, 5>>, <<7, 10>>, <<1, 1>>}

\* volatilities handed to the classifiers, as their squares: 0, 0.4, 0.5, 1,
\* 1.5, 2 and NaN
ClassifyRegimeVolatilities ==
    {[squared |-> v] :
        v \in {<<0, 1>>, <<4, 25>>, <<1, 4>>, <<1, 1>>, <<9, 4>>, <<4, 1>>, NaN}}

\* lines 44-47 of analyze on a trend strength and a volatility of its own:
\* _classify_regime(trend_strength, volatility) and
\* _classify_volatility(volatility)
CallClassifyRegime ==
    /\ pc = "idle"
    /\ \E t \in ClassifyTrends : \E v \in ClassifyRegimeVolatilities :
        /\ args' = [trend_strength |-> t, volatility |-> v]
        /\ work' = work
        /\ ret' = <<[regime |-> classify_regime(t, v),
                     volatility_level |-> classify_volatility(v)]>>
    /\ call' = "classify_regime"
    /\ pc' = "done"
    /\ UNCHANGED <<strategy, data, parameters, df, locals, err, earlier>>

(***************************************************************************)
(* The endpoints of api/routes.py                                          *)
(***************************************************************************)
\* the base class of an exception class (core/exceptions.py; HTTPException
\* and ValueError derive from Exception)
BaseClass(class) ==
    CASE class \in {"InjectiveConnectionError", "InvalidMarketError",
                    "InsufficientDataError", "StrategyExecutionError"}
             -> "NinjaQuantException"
      [] class \in {"NinjaQuantException", "ValueError", "HTTPException"} -> "Exception"
      [] OTHER -> "none"

\* isinstance(e, class) for an exception e of class of
RECURSIVE IsInstance(_, _)
IsInstance(of, class) ==
    IF of = "none" THEN FALSE
    ELSE of = class \/ IsInstance(BaseClass(of), class)

HTTPException(status_code, detail) ==
    [type |-> "HTTPException", status_code |-> status_code, detail |-> detail]

\* an except clause: the class caught, the status of the HTTPException it
\* raises, and its detail: str(e), or a fixed text
Except(class, status_code, detail) ==
    [class |-> class, status_code |-> status_code, detail |-> detail]

\* the response to an exception e raised in a try block with the given
\* except clauses: the first clause whose class e is an instance of
RECURSIVE Caught(_, _)
Caught(e, clauses) ==
    IF clauses = <<>> THEN e
    ELSE IF IsInstance(e.type, clauses[1].class)
         THEN HTTPException(clauses[1].status_code,
                            IF clauses[1].detail = "str(e)" THEN e.msg
                            ELSE clauses[1].detail)
    ELSE Caught(e, Tail(clauses))

\* lines 127-149 and 218-240: the except clauses of the two /backtest endpoints
BacktestExcept ==
    <<Except("InvalidMarketError", 404, "str(e)"),
      Except("InsufficientDataError", 400, "str(e)"),
      Except("StrategyExecutionError", 400, "str(e)"),
      Except("InjectiveConnectionError", 503, "Failed to connect to Injective network"),
      Except("ValueError", 400, "str(e)"),
      Except("Exception", 500, "Internal server error occurred")>>

\* lines 339-345 and 482-488: the except clauses of /compare and /risk-analysis
AdvancedExcept ==
    <<Except("InvalidMarketError", 404, "str(e)"),
      Except("Exception", 500, "Internal server error occurred")>>

\* the exception strategy.execute(data, parameters) raises, NoErr if none
\* (ema_crossover.py 44-52, rsi_strategy.py 45-53)
ExecuteRaises(s, d, p) ==
    IF Validate(s, p) # "ok" THEN [type |-> "ValueError", msg |-> Validate(s, p)]
    ELSE IF "close" \notin d.columns
         THEN [type |-> "StrategyExecutionError",
               msg |-> "Data must contain 'close' column"]
    ELSE IF TooShort(s, d, p) THEN [type |-> TooShortError, msg |-> "Insufficient data"]
    ELSE NoErr

\* the model's name of a strategy named in a request
StrategyOf(name) == IF name = "ema_crossover" THEN "ema" ELSE "rsi"

\* a response without an error; its body is left out
OK == [type |-> "response", status_code |-> 200, detail |-> ""]

\* strategy configurations of a request: valid ones and ones that
\* validate_parameters rejects
RouteConfigs ==
    {[strategy |-> "ema_crossover",
      parameters |-> [short_period |-> IntV(a), long_period |-> IntV(b)]] :
         <<a, b>> \in {<<1, 2>>, <<2, 1>>, <<1, 3>>}}
    \cup {[strategy |-> "rsi_mean_reversion",
           parameters |-> [period |-> IntV(1), oversold |-> IntV(a),
                           overbought |-> IntV(b)]] :
             <<a, b>> \in {<<30, 70>>, <<70, 30>>}}

\* what data_client.fetch_historical_candles gives an endpoint: 1..MaxCandles
\* candles, or an exception
Fetched ==
    {[type |-> "none", df |-> [columns |-> {"close"}, values |-> [k \in 1..n |-> 1]]] :
        n \in 1..MaxCandles}
    \cup {[type |-> t, msg |-> "fetch failed"] :
             t \in {"InvalidMarketError", "InjectiveConnectionError"}}

\* lines 301-318: the configurations whose strategy ran; an exception of any
\* class is logged and the configuration skipped
ComparisonResults(strategies, candles) ==
    SelectSeq(strategies,
              LAMBDA c : ExecuteRaises(StrategyOf(c.strategy), candles, c.parameters) = NoErr)

\* POST /compare, lines 247-345
compare_strategies(strategies, fetched) ==
    IF fetched.type # "none" THEN Caught(fetched, AdvancedExcept)
    ELSE IF ComparisonResults(strategies, fetched.df) = <<>>
         THEN Caught(HTTPException(400, "No strategies could be executed successfully"),
                     AdvancedExcept)
    ELSE OK

\* POST /risk-analysis, lines 410-488
analyze_risk(config, fetched) ==
    IF fetched.type # "none" THEN Caught(fetched, AdvancedExcept)
    ELSE LET e == ExecuteRaises(StrategyOf(config.strategy), fetched.df, config.parameters)
         IN  IF e # NoErr THEN Caught(e, AdvancedExcept) ELSE OK

\* POST /backtest/ema-crossover and /backtest/rsi-mean-reversion, lines 62-240
Backtest(config, fetched) ==
    IF fetched.type # "none" THEN Caught(fetched, BacktestExcept)
    ELSE LET e == ExecuteRaises(StrategyOf(config.strategy), fetched.df, config.parameters)
         IN  IF e # NoErr THEN Caught(e, BacktestExcept) ELSE OK

PostCompare ==
    /\ pc = "idle"
    /\ \E strategies \in {q \in SeqsUpTo(RouteConfigs, MaxConfigs) : Len(q) >= 2} :
       \E fetched \in Fetched :
        /\ args' = [strategies |-> strategies, fetched |-> fetched]
        /\ work' = [comparison_results |->
                        IF fetched.type = "none"
                        THEN ComparisonResults(strategies, fetched.df) ELSE <<>>]
        /\ ret' = <<compare_strategies(strategies, fetched)>>
    /\ call' = "POST /compare"
    /\ pc' = "done"
    /\ UNCHANGED <<strategy, data, parameters, df, locals, err, earlier>>

PostRiskAnalysis ==
    /\ pc = "idle"
    /\ \E config \in RouteConfigs : \E fetched \in Fetched :
        /\ args' = [config |-> config, fetched |-> fetched]
        /\ work' = work
        /\ ret' = <<analyze_risk(config, fetched)>>
    /\ call' = "POST /risk-analysis"
    /\ pc' = "done"
    /\ UNCHANGED <<strategy, data, parameters, df, locals, err, earlier>>

PostBacktest ==
    /\ pc = "idle"
    /\ \E config \in RouteConfigs : \E fetched \in Fetched :
        /\ args' = [config |-> config, fetched |-> fetched]
        /\ work' = work
        /\ ret' = <<Backtest(config, fetched)>>
    /\ call' = "POST /backtest"
    /\ pc' = "done"
    /\ UNCHANGED <<strategy, data, parameters, df, locals, err, earlier>>

\* MetricsCalculator.calculate, RiskAnalyzer(...).analyze() or
\* MarketRegimeAnalyzer(...).analyze() is called again with the same arguments
RepeatAnalytics ==
    /\ pc = "done"
    /\ call \in {"calculate", "analyze", "regime_analyze"}
    /\ earlier = <<>>
    /\ call # "regime_analyze" => Len(args.trades) <= MaxRepeatTrades
    /\ earlier' = <<Outcome>>
    /\ ret' = CASE call = "calculate" ->
                     <<MetricsCalculate(args.trades, args.initial_capital)>>
                [] call = "analyze" -> <<RiskAnalyze(args.trades)>>
                [] call = "regime_analyze" -> <<RegimeAnalyze(args.close)>>
    /\ UNCHANGED <<pc, call, strategy, data, parameters, df, locals, err, args, work>>

Next ==
    \/ RepeatExecute
    \/ RepeatAnalytics
    \/ PostCompare
    \/ PostRiskAnalysis
    \/ PostBacktest
    \/ CallRegimeAnalyze
    \/ CallClassifyRegime
    \/ CallClassifyRisk
    \/ CallMetricsCalculate
    \/ CallRiskAnalyze
    \/ CallValidateParameters
    \/ CallExecute
    \/ ExecValidate
    \/ ExecCheckClose
    \/ ExecCheckLen
    \/ ExecCalculate
    \/ EMAEnter
    \/ EMAExit
    \/ EMAHold
    \/ RSIContinue
    \/ RSIEnter
    \/ RSIExitOverbought
    \/ RSIExitMidLevel
    \/ RSIHold
    \/ ExecReturn

Spec == Init /\ [][Next]_vars

(***************************************************************************)
(* Properties                                                              *)
(***************************************************************************)
\* the list a finished execute call handed back
Returned == pc = "done" /\ call = "execute"

\* a list of trades is in time order and its trades do not overlap
Ordered(ts) ==
    \A k \in 1..Len(ts) :
        /\ ts[k].entry_index < ts[k].exit_index
        /\ k < Len(ts) => ts[k].exit_index < ts[k + 1].entry_index

\* C1: in the trade list of an EMA or RSI run (while it is built and when it
\* is returned) every trade has entry_index < exit_index, and the exit_index
\* of a trade is strictly less than the entry_index of the next one.
C1_TradesOrdered ==
    /\ Ordered(trades)
    /\ Returned => Ordered(ret[1])

C1_Witness ==
    /\ Returned
    /\ strategy = "rsi"
    /\ Len(ret[1]) >= 2

C1_WitnessEMA ==
    /\ Returned
    /\ strategy = "ema"
    /\ Len(ret[1]) >= 2

\* C2: single-position discipline.  The number of entries minus the number
\* of emitted trades is 0 when FLAT and 1 when LONG; a step that enters
\* starts FLAT and ends LONG, a step that emits a trade starts LONG and ends
\* FLAT, and a step taken while LONG never counts a second entry.
C2_SinglePosition ==
    /\ [](entries - Len(trades) = IF position_open THEN 1 ELSE 0)
    /\ [][/\ entries' > entries => ~position_open /\ position_open'
          /\ Len(trades') > Len(trades) =>
                position_open /\ ~position_open' /\ Len(trades') = Len(trades) + 1
          /\ position_open => entries' <= entries]_vars

\* a run that met an entry signal while LONG (EMA: the short EMA crossing up
\* again is impossible while above, so the RSI run is the telling one)
C2_Witness ==
    /\ pc = "loop"
    /\ strategy = "rsi"
    /\ i < Len(df.close)
    /\ position_open
    /\ ~isna(iloc(df.rsi, i)) /\ ~isna(iloc(df.rsi, i - 1))
    /\ iloc(df.rsi, i)[1] < parameters.oversold.val * iloc(df.rsi, i)[2]
    /\ iloc(df.rsi, i - 1)[1] >= parameters.oversold.val * iloc(df.rsi, i - 1)[2]

\* C3: a position still open when the loop ends adds nothing to the returned
\* list: the list returned is the list of the exits that fired, one trade per
\* exit, and an open position is one entry that has no trade.
C3_OpenDiscarded ==
    Returned =>
        /\ Len(ret[1]) = exits
        /\ ret[1] = trades
        /\ position_open => entries = Len(ret[1]) + 1
        /\ \A k \in 1..Len(ret[1]) : ret[1][k].exit_index < Len(df.close)

C3_Witness ==
    /\ Returned
    /\ position_open
    /\ Len(ret[1]) >= 1

\* the EMA columns at Python index t
ShortAt(t) == iloc(df.ema_short, t)
LongAt(t) == iloc(df.ema_long, t)

\* short[t-1] <= long[t-1] and short[t] > long[t], on the fractions themselves
GoldenCrossAt(t) ==
    /\ Compare(ShortAt(t - 1), LongAt(t - 1)) <= 0
    /\ Compare(ShortAt(t), LongAt(t)) > 0

\* short[t-1] >= long[t-1] and short[t] < long[t]
DeathCrossAt(t) ==
    /\ Compare(ShortAt(t - 1), LongAt(t - 1)) >= 0
    /\ Compare(ShortAt(t), LongAt(t)) < 0

\* the fraction r equals num / den
IsRatio(r, num, den) == r[2] # 0 /\ r[1] * den = num * r[2]

\* C4: at every index i >= 1 at which the EMA machine is FLAT it moves to
\* LONG exactly when short[i-1] <= long[i-1] and short[i] > long[i], and it
\* then records entry_price = price[i] and entry_index = i; every trade
\* emitted carries the price and the index of such a golden cross.
C4_EMAEntry ==
    /\ [][(InLoop("ema") /\ ~position_open) =>
            /\ i >= 1
            /\ position_open' <=> GoldenCrossAt(i)
            /\ position_open' =>
                  entry_price' = iloc(df.close, i) /\ entry_index' = i]_vars
    /\ [](strategy = "ema" =>
            \A k \in 1..Len(trades) :
                /\ trades[k].entry_index >= 1
                /\ GoldenCrossAt(trades[k].entry_index)
                /\ trades[k].entry_price = iloc(df.close, trades[k].entry_index))

C4_Witness ==
    /\ pc = "loop"
    /\ strategy = "ema"
    /\ position_open
    /\ entry_index = i - 1
    /\ Len(trades) >= 1

\* C5: at every index i at which the EMA machine is LONG it moves to FLAT
\* exactly when short[i-1] >= long[i-1] and short[i] < long[i], and it then
\* emits exactly one trade, with exit_price = price[i], exit_index = i, the
\* entry values recorded at the golden cross that opened the position and
\* return = (exit_price - entry_price) / entry_price; otherwise it emits none.
C5_EMAExit ==
    /\ [][(InLoop("ema") /\ position_open) =>
            /\ ~position_open' <=> DeathCrossAt(i)
            /\ position_open' => trades' = trades
            /\ ~position_open' =>
                  /\ Len(trades') = Len(trades) + 1
                  /\ SubSeq(trades', 1, Len(trades)) = trades
                  /\ LET t == trades'[Len(trades')]
                     IN  /\ t.exit_price = iloc(df.close, i)
                         /\ t.exit_index = i
                         /\ t.entry_price = entry_price
                         /\ t.entry_index = entry_index
                         /\ IsRatio(t.return, iloc(df.close, i) - entry_price,
                                    entry_price)]_vars
    /\ []((strategy = "ema" /\ position_open) =>
            /\ GoldenCrossAt(entry_index)
            /\ entry_price = iloc(df.close, entry_index))

C5_Witness ==
    /\ Returned
    /\ strategy = "ema"
    /\ Len(ret[1]) >= 1
    /\ ret[1][1].exit_price # ret[1][1].entry_price

\* the RSI column at Python index t, and whether it is a number
RsiAt(t) == iloc(df.rsi, t)
Defined(t) == RsiAt(t)[2] # 0

\* rsi[t] compared with a level, on the fraction itself (its denominator is > 0)
RsiBelow(t, level) == RsiAt(t)[1] < level * RsiAt(t)[2]
RsiAbove(t, level) == RsiAt(t)[1] > level * RsiAt(t)[2]

\* rsi[t-1] >= level and rsi[t] < level
CrossesDown(t, level) ==
    /\ Defined(t - 1) /\ Defined(t)
    /\ ~RsiBelow(t - 1, level)
    /\ RsiBelow(t, level)

\* rsi[t-1] <= level and rsi[t] > level
CrossesUp(t, level) ==
    /\ Defined(t - 1) /\ Defined(t)
    /\ ~RsiAbove(t - 1, level)
    /\ RsiAbove(t, level)

\* C6: at every index i at which the RSI machine is FLAT and rsi[i-1] and
\* rsi[i] are both defined, it opens LONG exactly when rsi[i-1] >= oversold
\* and rsi[i] < oversold, and it then records entry_price = price[i] and
\* entry_index = i.
C6_RSIEntry ==
    [][(InLoop("rsi") /\ ~position_open /\ Defined(i - 1) /\ Defined(i)) =>
          /\ position_open' <=> CrossesDown(i, parameters.oversold.val)
          /\ position_open' =>
                entry_price' = iloc(df.close, i) /\ entry_index' = i]_vars

C6_Witness ==
    /\ pc = "loop"
    /\ strategy = "rsi"
    /\ position_open
    /\ entry_index = i - 1
    /\ entry_price = iloc(df.close, i - 1)
    /\ CrossesDown(i - 1, parameters.oversold.val)

\* C7: while the RSI machine is LONG, an index i with rsi[i-1] <= overbought
\* and rsi[i] > overbought closes the position with one trade whose
\* exit_reason is "overbought"; no trade with exit_reason "mid_level_exit" is
\* ever emitted at an index where that condition holds.
C7_OverboughtFirst ==
    /\ [][(InLoop("rsi") /\ position_open
                /\ CrossesUp(i, parameters.overbought.val)) =>
            /\ ~position_open'
            /\ Len(trades') = Len(trades) + 1
            /\ trades'[Len(trades')].exit_reason = "overbought"
            /\ trades'[Len(trades')].exit_index = i]_vars
    /\ [](strategy = "rsi" =>
            \A k \in 1..Len(trades) :
                trades[k].exit_reason = "mid_level_exit" =>
                    ~CrossesUp(trades[k].exit_index, parameters.overbought.val))

C7_Witness ==
    /\ strategy = "rsi"
    /\ Len(trades) >= 1
    /\ trades[Len(trades)].exit_reason = "overbought"
    /\ CrossesUp(trades[Len(trades)].exit_index, parameters.overbought.val)

\* C8: a trade with exit_reason "mid_level_exit" is emitted at index i only
\* if the machine is LONG, the overbought exit does not fire at i,
\* rsi[i-1] >= 50, rsi[i] < 50 and i > entry_index + 5; so every such trade
\* has exit_index - entry_index >= 6; and while LONG a downward cross of 50
\* at an index i <= entry_index + 5 leaves the position open and emits
\* nothing.
C8_MidLevelStop ==
    /\ [][(strategy = "rsi" /\ Len(trades') > Len(trades)
                /\ trades'[Len(trades')].exit_reason = "mid_level_exit") =>
            /\ position_open
            /\ ~CrossesUp(i, parameters.overbought.val)
            /\ CrossesDown(i, 50)
            /\ i > entry_index + 5
            /\ trades'[Len(trades')].exit_index = i]_vars
    /\ [](strategy = "rsi" =>
            \A k \in 1..Len(trades) :
                trades[k].exit_reason = "mid_level_exit" =>
                    trades[k].exit_index - trades[k].entry_index >= 6)
    /\ [][(InLoop("rsi") /\ position_open /\ CrossesDown(i, 50)
                /\ i <= entry_index + 5) =>
            position_open' /\ trades' = trades]_vars

\* a mid-level exit was taken after an earlier downward cross of 50 was
\* passed over because it came too soon after the entry
C8_Witness ==
    /\ strategy = "rsi"
    /\ Len(trades) >= 1
    /\ LET t == trades[Len(trades)]
       IN  /\ t.exit_reason = "mid_level_exit"
           /\ \E j \in (t.entry_index + 1)..(t.entry_index + 5) : CrossesDown(j, 50)

\* C9: execute on a series shorter than the minimum (long_period for EMA,
\* period + 1 for RSI) fails with InsufficientDataError, and a series of at
\* least the minimum length passes the length check.
C9_ShortSeriesInsufficientData ==
    (/\ call = "execute"
     /\ pc \in {"calc", "loop", "done", "raised"}
     /\ Validate(strategy, parameters) = "ok"
     /\ "close" \in data.columns) =>
        LET minimum == IF strategy = "ema" THEN parameters.long_period.val
                       ELSE parameters.period.val + 1
        IN  IF Len(data.values) < minimum
            THEN pc = "raised" /\ err.type = "InsufficientDataError"
            ELSE pc # "raised"

\* C10: EMAStrategy.validate_parameters (called directly or by execute)
\* accepts a parameter set exactly when short_period and long_period are
\* both present, both integers > 0 and short_period < long_period; any other
\* set is rejected with the validation error (ValueError), nothing is
\* returned and no trade is produced.
C10_EMAValidation ==
    (strategy = "ema" /\ pc \notin {"idle", "validate"}) =>
        LET s == parameters.short_period
            l == parameters.long_period
            ok == /\ s.tag = "int" /\ l.tag = "int"
                  /\ s.val > 0 /\ l.val > 0
                  /\ s.val < l.val
        IN  /\ ok <=> ~(pc = "raised" /\ err.type = "ValueError")
            /\ (ok /\ call = "validate_parameters") => pc = "done" /\ ret = <<TRUE>>
            /\ ~ok => pc = "raised" /\ ret = <<>> /\ trades = <<>>

C10_Witness ==
    /\ pc = "raised"
    /\ strategy = "ema"
    /\ call = "execute"
    /\ err.type = "ValueError"
    /\ parameters.short_period.tag = "int"
    /\ parameters.long_period.tag = "int"
    /\ parameters.short_period.val > 0
    /\ parameters.short_period.val = parameters.long_period.val
    /\ Len(data.values) >= 2

\* C11: RSIStrategy.validate_parameters (called directly or by execute)
\* accepts a parameter set exactly when period is an integer > 0, oversold
\* and overbought are numbers strictly between 0 and 100 and
\* oversold < overbought; any other set is rejected with the validation
\* error (ValueError).
C11_RSIValidation ==
    (strategy = "rsi" /\ pc \notin {"idle", "validate"}) =>
        LET between(v) == v.tag \in {"int", "float"} /\ 0 < v.val /\ v.val < 100
            ok == /\ parameters.period.tag = "int"
                  /\ parameters.period.val > 0
                  /\ between(parameters.oversold)
                  /\ between(parameters.overbought)
                  /\ parameters.oversold.val < parameters.overbought.val
        IN  /\ ok <=> ~(pc = "raised" /\ err.type = "ValueError")
            /\ (ok /\ call = "validate_parameters") => pc = "done" /\ ret = <<TRUE>>
            /\ ~ok => pc = "raised" /\ ret = <<>>

\* what does hold: the same with a float('nan') threshold counted as accepted
RSIValidationButNaN ==
    (strategy = "rsi" /\ pc \notin {"idle", "validate"}) =>
        LET between(v) ==
                v.tag = "nan" \/ (v.tag \in {"int", "float"} /\ 0 < v.val /\ v.val < 100)
            ok == /\ parameters.period.tag = "int"
                  /\ parameters.period.val > 0
                  /\ between(parameters.oversold)
                  /\ between(parameters.overbought)
                  /\ \/ "nan" \in {parameters.oversold.tag, parameters.overbought.tag}
                     \/ parameters.oversold.val < parameters.overbought.val
        IN  ok <=> ~(pc = "raised" /\ err.type = "ValueError")

\* a call of execute that is under way has a next step (ExecCalculate asks
\* for nothing but pc = "calc")
ExecuteCanStep ==
    \/ pc = "calc"
    \/ ENABLED (\/ ExecValidate \/ ExecCheckClose \/ ExecCheckLen
                \/ EMAEnter \/ EMAExit \/ EMAHold
                \/ RSIContinue \/ RSIEnter \/ RSIExitOverbought \/ RSIExitMidLevel
                \/ RSIHold \/ ExecReturn)

\* C12: in execute the parameter validation, the 'close' check and the
\* length check run in that order and before any indicator is computed or
\* any index is simulated; a call in which one of them fails raises the
\* error of the first failing check, returns nothing and holds no trade;
\* a call in which all pass goes on until it returns the list built over
\* every index of the series; no call stops anywhere else.
C12_NoPartialResult ==
    call = "execute" =>
        LET valid == Validate(strategy, parameters) = "ok"
            has_close == "close" \in data.columns
            long_enough == ~TooShort(strategy, data, parameters)
        IN  /\ pc \in {"check_close", "check_len", "calc", "loop", "done"} => valid
            /\ pc \in {"check_len", "calc", "loop", "done"} => has_close
            /\ pc \in {"calc", "loop", "done"} => long_enough
            /\ pc \notin {"loop", "done"} => df = NoDf /\ trades = <<>> /\ i = 0
            /\ pc = "raised" =>
                  /\ ret = <<>>
                  /\ IF ~valid THEN err.type = "ValueError"
                     ELSE IF ~has_close
                          THEN err.msg = "Data must contain 'close' column"
                     ELSE ~long_enough /\ err.msg = "Insufficient data"
            /\ pc = "done" =>
                  /\ err = NoErr
                  /\ ret = <<trades>>
                  /\ i = Len(data.values)
                  /\ df.close = data.values
            /\ pc # "done" => ret = <<>>
            /\ pc \notin {"done", "raised"} => ExecuteCanStep

\* the third check failed after the first two passed
C12_Witness ==
    /\ call = "execute"
    /\ pc = "raised"
    /\ err.msg = "Insufficient data"
    /\ Len(data.values) >= 1

\* C13: an index i at which rsi[i] or rsi[i-1] is undefined makes no
\* transition and raises nothing: position, entry values and trade list are
\* the same after it and the loop goes on.  rsi[0] is undefined, so nothing
\* enters or exits at index 0 or at index 1 (which would rest on rsi[0]).
C13_UndefinedRSINoSignal ==
    /\ [][(InLoop("rsi") /\ (~Defined(i) \/ ~Defined(i - 1))) =>
            /\ position_open' = position_open
            /\ trades' = trades
            /\ entry_price' = entry_price
            /\ entry_index' = entry_index
            /\ err' = err
            /\ pc' = "loop"
            /\ i' = i + 1]_vars
    /\ []((call = "execute" /\ strategy = "rsi" /\ pc \in {"loop", "done"}) =>
            /\ ~Defined(0)
            /\ i >= 1
            /\ position_open => entry_index >= 2
            /\ \A k \in 1..Len(trades) :
                  trades[k].entry_index >= 2 /\ trades[k].exit_index >= 3)

\* an undefined RSI in the middle of the series, met while LONG
C13_Witness ==
    /\ pc = "loop"
    /\ strategy = "rsi"
    /\ i >= 4
    /\ position_open
    /\ Defined(i - 2)
    /\ ~Defined(i - 1)

\* x rises by the same positive amount at every candle
IsRising(x) ==
    /\ Len(x) >= 2
    /\ x[2] - x[1] > 0
    /\ \A k \in 1..(Len(x) - 1) : x[k + 1] - x[k] = x[2] - x[1]

\* C14: on a series rising by the same positive amount at every candle the
\* EMA strategy with short_period = 3, long_period = 5 has short[t] > long[t]
\* at every index t >= 1: the golden cross at index 1 opens the position, no
\* death cross ever fires and the list returned is empty.
C14_RisingSeriesNoTrades ==
    (/\ call = "execute"
     /\ strategy = "ema"
     /\ pc \in {"loop", "done"}
     /\ parameters = [short_period |-> IntV(3), long_period |-> IntV(5)]
     /\ IsRising(data.values)) =>
        /\ \A t \in 1..(Len(df.close) - 1) :
              Compare(ShortAt(t), LongAt(t)) > 0
        /\ trades = <<>>
        /\ exits = 0
        /\ i >= 2 => position_open /\ entry_index = 1 /\ entries = 1
        /\ pc = "done" => ret = << <<>> >>

C14_Witness ==
    /\ call = "execute"
    /\ strategy = "ema"
    /\ pc = "done"
    /\ parameters = [short_period |-> IntV(3), long_period |-> IntV(5)]
    /\ IsRising(data.values)
    /\ Len(data.values) >= 6
    /\ position_open
    /\ ret = << <<>> >>

(***************************************************************************)
(* MetricsCalculator.calculate has returned                                *)
(***************************************************************************)
Calculated == pc = "done" /\ call = "calculate"

IsZero(x) == x[1] = 0 /\ x[2] # 0

\* two fractions denote the same number
SameNumber(a, b) == a[1] * b[2] = b[1] * a[2]

\* C15: MetricsCalculator.calculate on an empty trade list returns win_rate,
\* total_return, max_drawdown and sharpe_ratio equal to 0 and total_trades = 0,
\* whatever initial_capital is.
C15_EmptyMetrics ==
    (Calculated /\ args.trades = <<>>) =>
        /\ IsZero(ret[1].win_rate)
        /\ IsZero(ret[1].total_return)
        /\ IsZero(ret[1].max_drawdown)
        /\ ret[1].sharpe_ratio.zero
        /\ ret[1].total_trades = 0

C15_Witness ==
    /\ Calculated
    /\ args.trades = <<>>
    /\ args.initial_capital = -1
    /\ ret[1].total_trades = 0

\* product(1 + r_i) over the first k returns
RECURSIVE GrowthFactor(_, _)
GrowthFactor(rs, k) ==
    IF k = 0 THEN Num(1)
    ELSE RMul(RAdd(Num(1), rs[k]), GrowthFactor(rs, k - 1))

Winners(rs) == Cardinality({k \in 1..Len(rs) : rs[k][1] > 0})

ExampleTrades ==
    <<[return |-> <<1, 10>>], [return |-> <<-1, 20>>], [return |-> <<-1, 10>>],
      [return |-> <<1, 5>>]>>

\* what C16 says of the equity curve and of total_return
CompoundedReturn ==
    LET rs == ReturnsOf(args.trades)
        C == Num(args.initial_capital)
    IN  /\ Len(work.equity_curve) = Len(rs) + 1
        /\ \A k \in 0..Len(rs) :
               work.equity_curve[k + 1] = RMul(C, GrowthFactor(rs, k))
        /\ ret[1].total_return = Round4(RSub(GrowthFactor(rs, Len(rs)), Num(1)))
        /\ (args.trades = ExampleTrades /\ args.initial_capital = 1000) =>
               /\ ret[1].total_return = <<1286, 10000>>
               /\ SameNumber(ret[1].win_rate, <<1, 2>>)

\* C16 as stated: for a non-empty trade list and initial_capital > 0 the equity
\* curve is [C, C(1+r_1), C(1+r_1)(1+r_2), ...] of length n+1, total_return is
\* product(1 + r_i) - 1 rounded to 4 decimals (0.1286 for the returns 0.1, -0.05,
\* -0.1, 0.2 and capital 1000), and win_rate is (number of r_i > 0) / n.
C16_CompoundedReturn ==
    (Calculated /\ args.trades # <<>> /\ args.initial_capital > 0) =>
        /\ CompoundedReturn
        /\ SameNumber(ret[1].win_rate,
                      <<Winners(ReturnsOf(args.trades)), Len(args.trades)>>)

\* C16 amended: the same, with win_rate being (number of r_i > 0) / n rounded
\* to 4 decimals like the other fields.
C16_CompoundedReturnRounded ==
    (Calculated /\ args.trades # <<>> /\ args.initial_capital > 0) =>
        /\ CompoundedReturn
        /\ ret[1].win_rate =
               Round4(<<Winners(ReturnsOf(args.trades)), Len(args.trades)>>)

C16_Witness ==
    /\ Calculated
    /\ args.trades = ExampleTrades
    /\ args.initial_capital = 1000
    /\ ret[1].total_return = <<1286, 10000>>
    /\ Len(work.equity_curve) = 5

\* one winner in three trades: win_rate is 0.3333, not 1/3
C16_WitnessRounded ==
    /\ Calculated
    /\ Len(args.trades) = 3
    /\ Winners(ReturnsOf(args.trades)) = 1
    /\ ret[1].win_rate = <<3333, 10000>>

\* 0 <= x <= 1
InUnitInterval(x) == 0 <= x[1] /\ x[1] <= x[2]

\* C17: for every trade list and every initial_capital > 0 the record returned
\* by MetricsCalculator.calculate has win_rate in [0,1], max_drawdown in [0,1]
\* and total_trades >= 0 equal to the number of trades.
C17_ResultRange ==
    (Calculated /\ args.initial_capital > 0) =>
        /\ InUnitInterval(ret[1].win_rate)
        /\ InUnitInterval(ret[1].max_drawdown)
        /\ ret[1].total_trades >= 0
        /\ ret[1].total_trades = Len(args.trades)

AllLosses(ts) == \A k \in 1..Len(ts) : ts[k].return[1] < 0

\* C18: for a trade list in which every return is strictly negative the
\* returned max_drawdown never exceeds 1, and it is at least the max_drawdown
\* of the same list without its last losing trade.
C18_LosingTradesDrawdown ==
    (Calculated /\ args.trades # <<>> /\ AllLosses(args.trades)) =>
        /\ InUnitInterval(ret[1].max_drawdown)
        /\ LET before == MetricsCalculate(SubSeq(args.trades, 1, Len(args.trades) - 1),
                                          args.initial_capital).max_drawdown
           IN  ~RLess(ret[1].max_drawdown, before)

(***************************************************************************)
(* RiskAnalyzer.analyze has returned                                       *)
(***************************************************************************)
Analyzed == pc = "done" /\ call = "analyze"

\* C19: RiskAnalyzer.analyze on an empty trade list returns risk_level "Low"
\* and return_volatility, max_consecutive_losses, largest_loss, avg_loss and
\* value_at_risk_95 all equal to 0.
C19_EmptyRisk ==
    (Analyzed /\ args.trades = <<>>) =>
        /\ ret[1].risk_level = "Low"
        /\ IsZero(ret[1].return_volatility.variance)
        /\ ret[1].max_consecutive_losses = 0
        /\ IsZero(ret[1].largest_loss)
        /\ IsZero(ret[1].avg_loss)
        /\ IsZero(ret[1].value_at_risk_95)

C19_Witness ==
    /\ Analyzed
    /\ args.trades = <<>>
    /\ ret[1].risk_level = "Low"

\* the trades a..b are all losses
LosingRun(rs, a, b) == \A k \in a..b : rs[k][1] < 0

\* length of the longest contiguous run of returns < 0
LongestLosingRun(rs) ==
    LET lengths == {b - a + 1 : <<a, b>> \in
                       {p \in (1..Len(rs)) \X (1..Len(rs)) :
                            p[1] <= p[2] /\ LosingRun(rs, p[1], p[2])}}
    IN  IF lengths = {} THEN 0
        ELSE CHOOSE l \in lengths : \A m \in lengths : m <= l

\* C20: max_consecutive_losses is the length of the longest contiguous run of
\* trades with return < 0 in list order; a trade with return >= 0 (exactly 0
\* included) resets the running counter to 0 and leaves the maximum seen so
\* far as it was; the returns 0.1, -0.05, -0.1, 0.2 give 2.
C20_MaxConsecutiveLosses ==
    (Analyzed /\ args.trades # <<>>) =>
        /\ ret[1].max_consecutive_losses = LongestLosingRun(work.returns)
        /\ \A k \in 1..Len(work.returns) :
               work.returns[k][1] >= 0 =>
                   /\ work.consecutive[k].current = 0
                   /\ work.consecutive[k].max =
                          (IF k = 1 THEN 0 ELSE work.consecutive[k - 1].max)
        /\ work.returns = <<<<1, 10>>, <<-1, 20>>, <<-1, 10>>, <<1, 5>>>> =>
               ret[1].max_consecutive_losses = 2

\* two losses, a return of exactly 0, one more loss: the run of two stands
C20_Witness ==
    /\ Analyzed
    /\ work.returns = <<<<-1, 20>>, <<-1, 10>>, <<0, 1>>, <<-1, 10>>>>
    /\ work.consecutive[3] = [current |-> 0, max |-> 2]
    /\ ret[1].max_consecutive_losses = 2

C20_WitnessExample ==
    /\ Analyzed
    /\ args.trades = <<DictReturn(<<1, 10>>), DictReturn(<<-1, 20>>),
                       DictReturn(<<-1, 10>>), DictReturn(<<1, 5>>)>>
    /\ ret[1].max_consecutive_losses = 2

\* the positions of the negative returns
LossPositions(rs) == {k \in 1..Len(rs) : rs[k][1] < 0}

\* x is the smallest of the negative returns
IsSmallestLoss(x, rs) ==
    /\ \E k \in LossPositions(rs) : rs[k] = x
    /\ \A k \in LossPositions(rs) : Compare(x, rs[k]) <= 0

RECURSIVE SumAt(_, _)
SumAt(rs, K) ==
    IF K = {} THEN Num(0)
    ELSE LET k == CHOOSE j \in K : TRUE IN RAdd(rs[k], SumAt(rs, K \ {k}))

\* x is the mean of the negative returns
IsMeanLoss(x, rs) ==
    SameNumber(x, RDiv(SumAt(rs, LossPositions(rs)), Num(Cardinality(LossPositions(rs)))))

\* C21: for every non-empty trade list largest_loss is the minimum and avg_loss
\* the mean of the negative returns, each 0 when no return is negative; so
\* largest_loss <= avg_loss <= 0, in the values computed and in the rounded
\* ones returned; and the returns that are zero or positive have no influence:
\* the list without them gives the same two values.
C21_LossStatistics ==
    (Analyzed /\ args.trades # <<>>) =>
        LET rs == work.returns
            negative == SelectSeq(rs, LAMBDA r : r[1] < 0)
        IN  /\ IF LossPositions(rs) = {}
               THEN IsZero(work.largest_loss) /\ IsZero(work.avg_loss)
               ELSE /\ IsSmallestLoss(work.largest_loss, rs)
                    /\ IsMeanLoss(work.avg_loss, rs)
            /\ ret[1].largest_loss = Round4(work.largest_loss)
            /\ ret[1].avg_loss = Round4(work.avg_loss)
            /\ Compare(work.largest_loss, work.avg_loss) <= 0
            /\ work.avg_loss[1] <= 0
            /\ ret[1].largest_loss[1] <= ret[1].avg_loss[1]
            /\ ret[1].avg_loss[1] <= 0
            /\ calculate_largest_loss(negative) = work.largest_loss
            /\ calculate_avg_loss(negative) = work.avg_loss

\* losses of 10% and 5% among a zero and a gain: -0.1 and -0.075
C21_Witness ==
    /\ Analyzed
    /\ work.returns = <<<<1, 10>>, <<-1, 20>>, <<0, 1>>, <<-1, 10>>>>
    /\ ret[1].largest_loss = <<-1000, 10000>>
    /\ ret[1].avg_loss = <<-750, 10000>>

(***************************************************************************)
(* RiskAnalyzer._classify_risk has returned                                *)
(***************************************************************************)
Classified == pc = "done" /\ call = "classify_risk"

\* the points of a band: 2 above the upper threshold, 1 above the lower one
Band(above_upper, above_lower) == IF above_upper THEN 2 ELSE IF above_lower THEN 1 ELSE 0

\* the three bands of a volatility (by its square), a number of consecutive
\* losses and a largest loss
VolatilityBand(v) ==
    Band(Compare(v.variance, <<225, 10000>>) > 0, Compare(v.variance, <<64, 10000>>) > 0)
ConsecutiveBand(n) == Band(n > 5, n > 3)
LossBand(l) == Band(Compare(l, <<-15, 100>>) < 0, Compare(l, <<-8, 100>>) < 0)

\* C22: risk_level follows from a score that sums three independent bands:
\* volatility (> 0.15 adds 2, else > 0.08 adds 1), max_consecutive_losses
\* (> 5 adds 2, else > 3 adds 1) and largest_loss (< -0.15 adds 2, else < -0.08
\* adds 1); a score <= 2 gives Low, 3 or 4 Medium, 5 or 6 High; a value
\* exactly on a threshold falls in the lower band.
C22_RiskBands ==
    Classified =>
        LET score == VolatilityBand(args.volatility)
                         + ConsecutiveBand(args.max_consecutive_losses)
                         + LossBand(args.largest_loss)
        IN  /\ work.risk_score = score
            /\ score \in 0..6
            /\ ret[1] = (CASE score <= 2 -> "Low"
                           [] score \in {3, 4} -> "Medium"
                           [] score \in {5, 6} -> "High")
            /\ (/\ args.volatility.variance = <<9, 400>>
                /\ args.max_consecutive_losses = 5
                /\ args.largest_loss = <<-3, 20>>) => score = 3

\* every value exactly on its upper threshold: one point each, Medium
C22_Witness ==
    /\ Classified
    /\ args.volatility.variance = <<9, 400>>
    /\ args.max_consecutive_losses = 5
    /\ args.largest_loss = <<-3, 20>>
    /\ work.risk_score = 3
    /\ ret[1] = "Medium"

C22_WitnessHigh ==
    /\ Classified
    /\ work.risk_score = 6
    /\ ret[1] = "High"

\* C29: a trade list is classified "High" only if all three bands contribute:
\* max_consecutive_losses > 3, return volatility > 0.08 and largest_loss
\* < -0.08; so a list of fewer than 4 trades is never "High", and a list of
\* exactly one trade is "Low" whatever its return.
C29_HighNeedsAllBands ==
    /\ (Classified /\ ret[1] = "High") =>
           /\ ConsecutiveBand(args.max_consecutive_losses) >= 1
           /\ VolatilityBand(args.volatility) >= 1
           /\ LossBand(args.largest_loss) >= 1
    /\ (Analyzed /\ args.trades # <<>>) =>
           /\ ret[1].risk_level = "High" =>
                  /\ ret[1].max_consecutive_losses > 3
                  /\ Compare(ret[1].return_volatility.variance, <<64, 10000>>) > 0
                  /\ Compare(work.largest_loss, <<-8, 100>>) < 0
           /\ Len(args.trades) < 4 => ret[1].risk_level # "High"
           /\ Len(args.trades) = 1 => ret[1].risk_level = "Low"

\* four losses in a row, of 50% and 5% in turn: High
C29_Witness ==
    /\ Analyzed
    /\ Len(args.trades) = 4
    /\ ret[1].risk_level = "High"
    /\ ret[1].max_consecutive_losses = 4

\* one trade that loses 50%: Low
C29_WitnessOneTrade ==
    /\ Analyzed
    /\ work.returns = <<<<-1, 2>>>>
    /\ ret[1].risk_level = "Low"

(***************************************************************************)
(* MarketRegimeAnalyzer.analyze, or its two classifiers, have returned     *)
(***************************************************************************)
RegimeAnalyzed == pc = "done" /\ call = "regime_analyze"
RegimeClassified == pc = "done" /\ call = "classify_regime"

\* the trend strength and the volatility that were classified
Classifiee == IF call = "classify_regime" THEN args ELSE work

\* a > b and a < b for numbers of which a may be NaN
Above(a, b) == a[2] # 0 /\ Compare(a, b) > 0
Below(a, b) == a[2] # 0 /\ Compare(a, b) < 0

\* C23: the volatility check has priority: whenever the annualized volatility
\* is > 1.5 the regime is "Volatile" whatever trend_strength is, > 0.6
\* included; otherwise the regime is "Trending" if trend_strength > 0.6 and
\* "Ranging" if not.
C23_VolatilityPriority ==
    (RegimeAnalyzed \/ RegimeClassified) =>
        ret[1].regime =
            (IF Above(Classifiee.volatility.squared, <<225, 100>>) THEN "Volatile"
             ELSE IF Above(Classifiee.trend_strength, <<6, 10>>) THEN "Trending"
             ELSE "Ranging")

\* closes 1, 2, 3: a perfect trend and a volatility far above 1.5
C23_Witness ==
    /\ RegimeAnalyzed
    /\ args.close = <<1, 2, 3>>
    /\ work.trend_strength = <<1, 1>>
    /\ Above(work.volatility.squared, <<225, 100>>)
    /\ ret[1].regime = "Volatile"

C23_WitnessTrending ==
    /\ RegimeAnalyzed
    /\ ret[1].regime = "Trending"
    /\ ret[1].volatility_level = "Low"

\* C30: regime "Volatile" implies volatility_level "High"; the converse holds
\* except when the annualized volatility is exactly 1.5, where the level is
\* "High" and the regime "Trending" or "Ranging"; the level is "Low" exactly
\* for volatility < 0.5 and "Medium" exactly for 0.5 <= volatility < 1.5.
C30_VolatileIffHigh ==
    (RegimeAnalyzed \/ RegimeClassified) =>
        LET v == Classifiee.volatility.squared
            exactly == v = <<9, 4>>
        IN  /\ ret[1].regime = "Volatile" => ret[1].volatility_level = "High"
            /\ (ret[1].volatility_level = "High" /\ ~exactly) =>
                   ret[1].regime = "Volatile"
            /\ exactly => /\ ret[1].volatility_level = "High"
                          /\ ret[1].regime \in {"Trending", "Ranging"}
            /\ ret[1].volatility_level = "Low" <=> Below(v, <<25, 100>>)
            /\ ret[1].volatility_level = "Medium" <=>
                   (v[2] # 0 /\ ~Below(v, <<25, 100>>) /\ Below(v, <<225, 100>>))

(***************************************************************************)
(* The endpoints                                                           *)
(***************************************************************************)
\* C25: POST /compare: when none of the requested strategy configurations
\* executes successfully the caller receives an HTTP 400 response with detail
\* "No strategies could be executed successfully".
C25_CompareNoneExecuted ==
    (/\ pc = "done"
     /\ call = "POST /compare"
     /\ args.fetched.type = "none"
     /\ work.comparison_results = <<>>) =>
        /\ ret[1].status_code = 400
        /\ ret[1].detail = "No strategies could be executed successfully"

\* the exception execute raises on the configuration of a request
RequestRaises ==
    ExecuteRaises(StrategyOf(args.config.strategy), args.fetched.df,
                  args.config.parameters)

\* C26: POST /risk-analysis: when the parameters are invalid (ValueError) or
\* the strategy cannot run (StrategyExecutionError) the caller receives HTTP
\* 400, as the /backtest endpoints answer the same errors; HTTP 500 is
\* returned only for other, unexpected errors.
C26_RiskAnalysisBadRequest ==
    /\ (/\ pc = "done"
        /\ call \in {"POST /risk-analysis", "POST /backtest"}
        /\ args.fetched.type = "none"
        /\ RequestRaises.type \in {"ValueError", "StrategyExecutionError"}) =>
           ret[1].status_code = 400
    /\ (/\ pc = "done"
        /\ call = "POST /risk-analysis"
        /\ ret[1].status_code = 500) =>
           /\ args.fetched.type # "InvalidMarketError"
           /\ args.fetched.type = "none" =>
                  RequestRaises.type \notin {"none", "ValueError", "StrategyExecutionError"}

\* C27: for every RSI series and every accepted threshold pair, no index has
\* both rsi[i-1] <= overbought < rsi[i] (exit path A) and rsi[i] < 50 <=
\* rsi[i-1] (exit path B), so path B is never pre-empted: while LONG, a
\* downward cross of 50 at an index i > entry_index + 5 always emits the
\* "mid_level_exit" trade; and no step both enters and exits, so no index is
\* the entry of one position and the exit of another or of the same one.
C27_ExitPathsExclusive ==
    /\ []((pc = "loop" /\ strategy = "rsi") =>
            \A t \in 1..(Len(df.rsi) - 1) :
                ~(CrossesUp(t, parameters.overbought.val) /\ CrossesDown(t, 50)))
    /\ [][(InLoop("rsi") /\ position_open /\ CrossesDown(i, 50)
                /\ i > entry_index + 5) =>
            /\ ~position_open'
            /\ Len(trades') = Len(trades) + 1
            /\ trades'[Len(trades')].exit_reason = "mid_level_exit"
            /\ trades'[Len(trades')].exit_index = i]_vars
    /\ [][~(entries' > entries /\ exits' > exits)]_vars
    /\ []((pc = "loop" /\ strategy = "rsi") =>
            /\ \A k \in 1..Len(trades) :
                /\ trades[k].entry_index < trades[k].exit_index
                /\ k > 1 => trades[k - 1].exit_index < trades[k].entry_index
            /\ (position_open /\ trades # <<>>) =>
                   trades[Len(trades)].exit_index < entry_index)

\* a mid-level exit at an index where path B holds and path A does not
C27_Witness ==
    /\ pc = "loop"
    /\ strategy = "rsi"
    /\ Len(trades) >= 1
    /\ trades[Len(trades)].exit_reason = "mid_level_exit"
    /\ trades[Len(trades)].exit_index = i - 1
    /\ CrossesDown(i - 1, 50)
    /\ ~CrossesUp(i - 1, parameters.overbought.val)
    /\ i - 1 > trades[Len(trades)].entry_index + 5

\* a second position opened after a first one was closed
C27_WitnessReentry ==
    /\ pc = "loop"
    /\ strategy = "rsi"
    /\ position_open
    /\ trades # <<>>
    /\ trades[Len(trades)].exit_index < entry_index

\* C28: the EMA strategy has no warm-up. Both EMAs equal price[0] at index 0;
\* so, for every valid pair of periods, the step at index 1 opens a position
\* with entry_price = price[1] and entry_index = 1 when price[1] > price[0],
\* and changes nothing when price[1] < price[0]; and no entry or exit is ever
\* recorded at index 0.
C28_NoWarmUp ==
    /\ []((pc = "loop" /\ strategy = "ema") =>
            /\ ShortAt(0) = <<iloc(df.close, 0), 1>>
            /\ LongAt(0) = <<iloc(df.close, 0), 1>>
            /\ i >= 1
            /\ position_open => entry_index >= 1
            /\ \A k \in 1..Len(trades) :
                  trades[k].entry_index >= 1 /\ trades[k].exit_index >= 1)
    /\ [][(InLoop("ema") /\ i = 1) =>
            /\ iloc(df.close, 1) > iloc(df.close, 0) =>
                  /\ position_open'
                  /\ entry_price' = iloc(df.close, 1)
                  /\ entry_index' = 1
            /\ iloc(df.close, 1) < iloc(df.close, 0) =>
                  UNCHANGED <<position_open, trades, entry_price, entry_index>>]_vars

\* a position opened at index 1 by a first rise
C28_Witness ==
    /\ pc = "loop"
    /\ strategy = "ema"
    /\ i = 2
    /\ iloc(df.close, 1) > iloc(df.close, 0)
    /\ position_open
    /\ entry_index = 1
    /\ entry_price = iloc(df.close, 1)

\* index 1 passed without a transition after a first fall
C28_WitnessFall ==
    /\ pc = "loop"
    /\ strategy = "ema"
    /\ i = 2
    /\ iloc(df.close, 1) < iloc(df.close, 0)
    /\ ~position_open
    /\ trades = <<>>

C24_WitnessAnalytics ==
    /\ earlier # <<>>
    /\ pc = "done"
    /\ call \in {"calculate", "analyze"}
    /\ Len(args.trades) = MaxRepeatTrades

\* a second execute that raised
C24_WitnessRaised ==
    /\ earlier # <<>>
    /\ pc = "raised"
    /\ err.type = "StrategyExecutionError"
====
